SPECIFICATION Spec
CONSTANTS
    EditFields <- MCFields
    Slots <- MCSlots
    OldMenus <- MCMenus
    MaxEvents = 2
PROPERTY MainMenuComes
