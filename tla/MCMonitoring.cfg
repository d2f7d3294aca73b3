SPECIFICATION Spec
CONSTANTS
    Requests = {p1, p2, o1}
    Probes = {p1, p2}
    Services = {"broker", "chroma", "search"}
    Plan <- VectorPlan
    Settings <- TwoSettings
INVARIANTS
    EveryRequestShown
    CountedAsAnswered
    ReadyWasSeen
    OptionalHarmless
PROPERTY GaugeConverges
