SPECIFICATION Spec
CONSTANTS
    MaxTabs = 2
PROPERTY CloseKeepsTheEditor
CHECK_DEADLOCK FALSE
