\* Two branches, and a thread more than the queue should ever use; one event,
\* two scopes: every interleaving of a change, a viewer and the refresh.
CONSTANTS
    Branches = {main, staging}
    Requests = {r1, r2}
    Threads = {t1, t2, t3}
    None = None
    Orphan = Orphan
    Events = {e1}
    NumScopes = 2
    Writers = {w1}
    Viewers = {v1}
    NoEvent = NoEvent
SPECIFICATION MCSpec
INVARIANTS OneDeployPerBranch PendingIsOneJob WrongOnlyAfterOverlap
PROPERTIES LostOnlyInMishap KeepsPromise StatsBecomeFresh
