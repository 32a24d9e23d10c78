SPECIFICATION BrandingSpec
CONSTANTS
    Slots = {"logo", "hero"}
    Logo = "logo"
    Services = {"google"}
    Families = {"A", "B"}
    Stem <- MCStem
    Weights = {400}
    SlotEdits <- MCSlotEdits
    RoleEdits = {"A"}
    MaxAssets = 3
    MaxFaces = 1
    Bundles <- MCBundles
    Inventories <- MCInventories
INVARIANT InventoryIntact
INVARIANT RoundTrip
INVARIANT ImportIsFaithful
PROPERTY RefusedChangesNothing
CHECK_DEADLOCK FALSE
