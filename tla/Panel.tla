------------------------------- MODULE Panel -------------------------------
(***************************************************************************)
(* The analytics of the Admin Panel (internal/admin/admin.go) and the      *)
(* cache in front of them.  An operator's purge, refresh or add changes    *)
(* the stored lists and then drops the cache; a page on insights is served *)
(* from the cache or computed under Server.mu, by queries that each read   *)
(* their own snapshot (AdminInsights in sqlite/admin.go).  What the lists  *)
(* hold is told apart by the number of transactions that changed them.     *)
(***************************************************************************)
EXTENDS Naturals

CONSTANTS
    Pages,       \* GET /insights
    Actions,     \* POST /purge, /refresh and /add
    Free,        \* Server.mu is held by nobody
    NoInsights,  \* Server.insights is nil
    MaxChanges   \* bound on the transactions

ASSUME FreeAssumption == Free \notin Pages
ASSUME NoInsightsAssumption ==
    NoInsights \notin [total : Nat, matches : Nat, old : BOOLEAN]
ASSUME MaxChangesAssumption == MaxChanges \in Nat

VARIABLES
    data,      \* transactions that changed the stored lists
    insights,  \* Server.insights
    mu,        \* who holds Server.mu across the queries
    page,
    action,
    settled    \* history: the data that answered actions have left

vars == <<data, insights, mu, page, action, settled>>

Versions == 0 .. MaxChanges

(* total and matches: what TradeMatchTotal and TradeMatches were read from *)
(* (the other queries come before, between or after them); old: the cached *)
(* ones are past insightsTTL.                                              *)
Insights == [total : Versions, matches : Versions, old : BOOLEAN]

(* due: what the page must at least reflect.                               *)
Page == [step : {"none", "refresh", "wait", "count", "list", "shown", "failed"},
         due : Versions, total : Versions, matches : Versions]
NoPage == [step |-> "none", due |-> 0, total |-> 0, matches |-> 0]

(* left: the data when its last transaction committed.                     *)
Action == [step : {"none", "acting", "invalidate", "redirect"}, left : Versions]
NoAction == [step |-> "none", left |-> 0]

TypeOK ==
    /\ data \in Versions /\ settled \in 0 .. data
    /\ insights \in Insights \union {NoInsights}
    /\ mu \in Pages \union {Free}
    /\ page \in [Pages -> Page]
    /\ \A p \in Pages : page[p].step \in {"count", "list"} <=> mu = p
    /\ action \in [Actions -> Action]

Init ==
    /\ data = 0 /\ settled = 0
    /\ insights = NoInsights
    /\ mu = Free
    /\ page = [p \in Pages |-> NoPage]
    /\ action = [a \in Actions |-> NoAction]

Show(p, new) == page' = [page EXCEPT ![p] = new]
Do(a, new) == action' = [action EXCEPT ![a] = new]

(* A refresh of the ticker, or of a chat command. *)
Change ==
    /\ data < MaxChanges
    /\ data' = data + 1
    /\ UNCHANGED <<insights, mu, page, action, settled>>

-----------------------------------------------------------------------------
(* An operator's action *)

Post(a) ==
    /\ action[a].step = "none"
    /\ Do(a, [NoAction EXCEPT !.step = "acting"])
    /\ UNCHANGED <<data, insights, mu, page, settled>>

(* A purge is one transaction, a refresh is several. *)
Act(a) ==
    /\ action[a].step \in {"acting", "invalidate"}
    /\ data < MaxChanges
    /\ data' = data + 1
    /\ Do(a, [step |-> "invalidate", left |-> data + 1])
    /\ UNCHANGED <<insights, mu, page, settled>>

(* Nothing was changed: the redirect tells of the error. *)
ActFails(a) ==
    /\ action[a].step = "acting"
    /\ Do(a, NoAction)
    /\ UNCHANGED <<data, insights, mu, page, settled>>

(* A refresh that read and stored what was there already invalidates too. *)
Unchanged(a) ==
    /\ action[a].step = "acting"
    /\ Do(a, [action[a] EXCEPT !.step = "invalidate"])
    /\ UNCHANGED <<data, insights, mu, page, settled>>

(* Mutant: the action leaves the cache alone. *)
KeepInsights(a) ==
    /\ action[a].step = "invalidate"
    /\ mu = Free
    /\ Do(a, [action[a] EXCEPT !.step = "redirect"])
    /\ UNCHANGED <<data, insights, mu, page, settled>>

Invalidate(a) ==
    /\ action[a].step = "invalidate"
    /\ mu = Free
    /\ insights' = NoInsights
    /\ Do(a, [action[a] EXCEPT !.step = "redirect"])
    /\ UNCHANGED <<data, mu, page, settled>>

Redirect(a) ==
    /\ action[a].step = "redirect"
    /\ settled' = IF action[a].left > settled THEN action[a].left ELSE settled
    /\ Do(a, NoAction)
    /\ UNCHANGED <<data, insights, mu, page>>

-----------------------------------------------------------------------------
(* A page *)

Get(p) ==
    /\ page[p].step = "none"
    /\ Show(p, [NoPage EXCEPT !.step = "wait", !.due = settled])
    /\ UNCHANGED <<data, insights, mu, action, settled>>

(* GET /insights?refresh=1 *)
GetRefreshed(p) ==
    /\ page[p].step = "none"
    /\ Show(p, [NoPage EXCEPT !.step = "refresh", !.due = data])
    /\ UNCHANGED <<data, insights, mu, action, settled>>

InvalidateForPage(p) ==
    /\ page[p].step = "refresh"
    /\ mu = Free
    /\ insights' = NoInsights
    /\ Show(p, [page[p] EXCEPT !.step = "wait"])
    /\ UNCHANGED <<data, mu, action, settled>>

Cached == insights # NoInsights /\ ~insights.old

ShowCached(p) ==
    /\ page[p].step = "wait"
    /\ mu = Free /\ Cached
    /\ Show(p, [page[p] EXCEPT !.step = "shown", !.total = insights.total, !.matches = insights.matches])
    /\ UNCHANGED <<data, insights, mu, action, settled>>

(* Mutant: the queries run without the mutex. *)
ComputeUnlocked(p) ==
    /\ page[p].step = "wait"
    /\ mu = Free /\ ~Cached
    /\ Show(p, [page[p] EXCEPT !.step = "count"])
    /\ UNCHANGED <<data, insights, mu, action, settled>>

Compute(p) ==
    /\ page[p].step = "wait"
    /\ mu = Free /\ ~Cached
    /\ mu' = p
    /\ Show(p, [page[p] EXCEPT !.step = "count"])
    /\ UNCHANGED <<data, insights, action, settled>>

CountMatches(p) ==
    /\ page[p].step = "count"
    /\ Show(p, [page[p] EXCEPT !.step = "list", !.total = data])
    /\ UNCHANGED <<data, insights, mu, action, settled>>

ListMatches(p) ==
    /\ page[p].step = "list"
    /\ Show(p, [page[p] EXCEPT !.step = "shown", !.matches = data])
    /\ insights' = [total |-> page[p].total, matches |-> data, old |-> FALSE]
    /\ mu' = Free
    /\ UNCHANGED <<data, action, settled>>

(* Mutant: a failed query starts all over, under the mutex. *)
QueryFailsRetrying(p) ==
    /\ page[p].step \in {"count", "list"}
    /\ Show(p, [page[p] EXCEPT !.step = "count"])
    /\ UNCHANGED <<data, insights, mu, action, settled>>

QueryFails(p) ==
    /\ page[p].step \in {"count", "list"}
    /\ Show(p, [page[p] EXCEPT !.step = "failed"])
    /\ mu' = Free
    /\ UNCHANGED <<data, insights, action, settled>>

Leave(p) ==
    /\ page[p].step \in {"shown", "failed"}
    /\ Show(p, NoPage)
    /\ UNCHANGED <<data, insights, mu, action, settled>>

(* insightsTTL has passed. *)
Age ==
    /\ Cached
    /\ insights' = [insights EXCEPT !.old = TRUE]
    /\ UNCHANGED <<data, mu, page, action, settled>>

ActionStep(a) == Act(a) \/ ActFails(a) \/ Unchanged(a) \/ Invalidate(a) \/ Redirect(a)
PageStep(p) ==
    \/ InvalidateForPage(p) \/ ShowCached(p) \/ Compute(p)
    \/ CountMatches(p) \/ ListMatches(p) \/ QueryFails(p)

Next ==
    \/ Change \/ Age
    \/ \E a \in Actions : Post(a) \/ ActionStep(a)
    \/ \E p \in Pages : Get(p) \/ GetRefreshed(p) \/ PageStep(p) \/ Leave(p)

Spec == Init /\ [][Next]_vars

(* A handler that can run does, and sync.Mutex hands the lock to a waiter  *)
(* that has starved for a millisecond.                                     *)
Fairness ==
    /\ \A p \in Pages : /\ SF_vars(InvalidateForPage(p)) /\ SF_vars(ShowCached(p) \/ Compute(p))
                        /\ WF_vars(CountMatches(p) \/ QueryFails(p))
                        /\ WF_vars(ListMatches(p) \/ QueryFails(p))
    /\ \A a \in Actions : /\ SF_vars(Invalidate(a))
                          /\ WF_vars(ActFails(a) \/ Unchanged(a)) /\ WF_vars(Redirect(a))

FairSpec == Spec /\ Fairness

-----------------------------------------------------------------------------
(* A page asked for after a purge, refresh or add was answered reflects    *)
(* it, and a page asked for with ?refresh=1 reflects all there was: a page *)
(* computed meanwhile never puts older numbers back into the cache.        *)
ShowsWhatIsDue ==
    \A p \in Pages : page[p].step = "shown" =>
        page[p].total >= page[p].due /\ page[p].matches >= page[p].due

(* Every page and every action is answered: nobody waits for ever on the   *)
(* mutex that a page holds across its queries.                             *)
EverythingAnswered ==
    /\ \A p \in Pages : page[p].step \in {"refresh", "wait"} ~> page[p].step \in {"shown", "failed"}
    /\ \A a \in Actions : action[a].step = "invalidate" ~> action[a].step = "none"
=============================================================================
