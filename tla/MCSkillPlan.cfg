SPECIFICATION Spec
CONSTANTS
    Name <- MCName
    Registered <- MCRegistered
    Gated <- MCGated
    ControlPlane = {"approvals"}
    ContextTools = {"policy", "memory"}
    FallbackPlan <- MCFallback
    Catalogs <- MCCatalogs
    SkillNames = {"asked", "nosuch"}
INVARIANTS
    PlanIsGoverned
    ContextBeforeGate
    PlanFollowsManifest
CHECK_DEADLOCK FALSE
