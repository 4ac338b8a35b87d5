---------------------------- MODULE PanelProofs ----------------------------
(***************************************************************************)
(* The analytics are never staler than the answered actions of the         *)
(* operator, for any number of pages, actions and changes.                 *)
(***************************************************************************)
EXTENDS Panel, TLAPS

(* What insights computed from now on, or cached, must reflect: all that   *)
(* was due when Server.insights was last dropped.                          *)
Due(v) ==
    \/ v = settled
    \/ \E a \in Actions : action[a].step = "redirect" /\ action[a].left = v
    \/ \E p \in Pages : page[p].step \in {"wait", "count", "list"} /\ page[p].due = v

(* Nothing is due that is not in the data yet.                             *)
Past ==
    /\ \A a \in Actions : action[a].left <= data
    /\ \A p \in Pages : page[p].due <= data

(* Neither the cache nor the page being computed is behind.                *)
UpToDate ==
    \A v \in Versions : Due(v) =>
        /\ insights # NoInsights => insights.total >= v /\ insights.matches >= v
        /\ \A p \in Pages : page[p].step = "list" => page[p].total >= v

IInv == TypeOK /\ Past /\ UpToDate /\ ShowsWhatIsDue

LEMMA InitInv == Init => IInv
<1>. SUFFICES ASSUME Init PROVE IInv
  OBVIOUS
<1>1. NoPage \in Page /\ NoAction \in Action /\ data \in Versions
  BY MaxChangesAssumption DEF Init, NoPage, Page, NoAction, Action, Versions
<1>2. /\ \A p \in Pages : page[p] = NoPage
      /\ \A a \in Actions : action[a] = NoAction
  BY DEF Init
<1>3. TypeOK
  BY <1>1, <1>2, FreeAssumption DEF Init, TypeOK, NoPage
<1>4. Past /\ UpToDate /\ ShowsWhatIsDue
  BY <1>2 DEF Init, Past, UpToDate, ShowsWhatIsDue, NoPage, NoAction
<1>. QED  BY <1>3, <1>4 DEF IInv

LEMMA NextInv == IInv /\ [Next]_vars => IInv'
<1>. SUFFICES ASSUME IInv, [Next]_vars PROVE IInv'
  OBVIOUS
<1>. USE MaxChangesAssumption DEF IInv
<1>. /\ data \in Nat /\ data <= MaxChanges /\ settled \in Nat /\ settled <= data
     /\ page \in [Pages -> Page] /\ action \in [Actions -> Action]
     /\ data \in Versions /\ 0 \in Versions /\ settled \in Versions
  BY DEF TypeOK, Versions
<1>a. \A p \in Pages : /\ page[p] \in Page
                       /\ page[p].due \in Nat /\ page[p].total \in Nat /\ page[p].matches \in Nat
  BY DEF Page, Versions
<1>b. \A a \in Actions : action[a] \in Action /\ action[a].left \in Nat
  BY DEF Action, Versions
<1>c. insights # NoInsights => /\ insights \in Insights
                               /\ insights.total \in Nat /\ insights.matches \in Nat
  BY DEF TypeOK, Insights, Versions
<1>1. CASE Change
  BY <1>1, <1>a, <1>b
     DEF Change, TypeOK, Past, UpToDate, Due, ShowsWhatIsDue, Versions
<1>2. CASE Age
  <2>1. insights \in Insights /\ insights' = [insights EXCEPT !.old = TRUE]
    BY <1>2, <1>c DEF Age, Cached
  <2>2. insights' \in Insights /\ insights'.total = insights.total /\ insights'.matches = insights.matches
    BY <2>1 DEF Insights
  <2>. QED  BY <1>2, <2>2 DEF Age, Cached, TypeOK, Past, UpToDate, Due, ShowsWhatIsDue
(* An action moves on, and with it what is due. *)
<1>3. ASSUME NEW a \in Actions, Post(a) \/ ActFails(a) \/ Unchanged(a)
      PROVE  IInv'
  <2>1. PICK new \in Action :
           /\ action' = [action EXCEPT ![a] = new]
           /\ new.step # "redirect" /\ (new.left = 0 \/ new.left = action[a].left)
    <3>1. [NoAction EXCEPT !.step = "acting"] \in Action /\ NoAction \in Action
      BY DEF NoAction, Action
    <3>2. [action[a] EXCEPT !.step = "invalidate"] \in Action
      BY <1>b DEF Action
    <3>3. [action[a] EXCEPT !.step = "invalidate"].left = action[a].left
      BY <1>b DEF Action
    <3>4. CASE Post(a)
      BY <3>1, <3>4 DEF Post, Do, NoAction
    <3>5. CASE ActFails(a)
      BY <3>1, <3>5 DEF ActFails, Do, NoAction
    <3>6. CASE Unchanged(a)
      BY <3>2, <3>3, <3>6, <1>b DEF Unchanged, Do, Action
    <3>. QED  BY <1>3, <3>4, <3>5, <3>6
  <2>2. UNCHANGED <<data, insights, mu, page, settled>>
    BY <1>3 DEF Post, ActFails, Unchanged
  <2>. QED  BY <2>1, <2>2, <1>b DEF TypeOK, Past, UpToDate, Due, ShowsWhatIsDue, Versions
<1>4. ASSUME NEW a \in Actions, Act(a)
      PROVE  IInv'
  <2>. DEFINE new == [step |-> "invalidate", left |-> data + 1]
  <2>1. new \in Action /\ new.step = "invalidate" /\ new.left = data + 1
    BY <1>4 DEF Act, Action, Versions
  <2>2. action' = [action EXCEPT ![a] = new] /\ data' = data + 1 /\ data' \in Versions
    BY <1>4 DEF Act, Do, Versions
  <2>3. UNCHANGED <<insights, mu, page, settled>>
    BY <1>4 DEF Act
  <2>. HIDE DEF new
  <2>. QED  BY <2>1, <2>2, <2>3, <1>a, <1>b
            DEF TypeOK, Past, UpToDate, Due, ShowsWhatIsDue, Versions
<1>5. ASSUME NEW a \in Actions, Invalidate(a)
      PROVE  IInv'
  <2>. DEFINE new == [action[a] EXCEPT !.step = "redirect"]
  <2>1. new \in Action /\ new.step = "redirect" /\ new.left = action[a].left
    BY <1>b DEF Action
  <2>2. action' = [action EXCEPT ![a] = new] /\ insights' = NoInsights /\ mu = Free
    BY <1>5 DEF Invalidate, Do
  <2>3. UNCHANGED <<data, mu, page, settled>>
    BY <1>5 DEF Invalidate
  <2>4. \A p \in Pages : page[p].step # "list"
    BY <2>2, FreeAssumption DEF TypeOK
  <2>. HIDE DEF new
  <2>. QED  BY <2>1, <2>2, <2>3, <2>4, <1>a, <1>b
            DEF TypeOK, Past, UpToDate, Due, ShowsWhatIsDue
<1>6. ASSUME NEW a \in Actions, Redirect(a)
      PROVE  IInv'
  <2>1. /\ NoAction \in Action /\ NoAction.step = "none" /\ NoAction.left = 0
        /\ action' = [action EXCEPT ![a] = NoAction]
    BY <1>6 DEF Redirect, Do, NoAction, Action
  <2>2. settled' = IF action[a].left > settled THEN action[a].left ELSE settled
    BY <1>6 DEF Redirect
  <2>3. UNCHANGED <<data, insights, mu, page>> /\ action[a].step = "redirect"
    BY <1>6 DEF Redirect
  <2>4. settled' \in 0 .. data
    BY <2>2, <1>b DEF Past
  <2>5. \A v \in Versions : Due(v)' => Due(v)
    BY <2>1, <2>2, <2>3 DEF Due
  <2>6. UpToDate'
    BY <2>3, <2>5 DEF UpToDate
  <2>. QED  BY <2>1, <2>3, <2>4, <2>6, <1>b
            DEF TypeOK, Past, ShowsWhatIsDue
<1>7. ASSUME NEW p \in Pages, Get(p) \/ GetRefreshed(p)
      PROVE  IInv'
  <2>1. PICK new \in Page :
           /\ page' = [page EXCEPT ![p] = new]
           /\ \/ new.step = "wait" /\ new.due = settled
              \/ new.step = "refresh" /\ new.due = data
    <3>1. /\ [NoPage EXCEPT !.step = "wait", !.due = settled] \in Page
          /\ [NoPage EXCEPT !.step = "refresh", !.due = data] \in Page
      BY DEF NoPage, Page
    <3>2. CASE Get(p)
      BY <3>1, <3>2 DEF Get, Show, NoPage
    <3>3. CASE GetRefreshed(p)
      BY <3>1, <3>3 DEF GetRefreshed, Show, NoPage
    <3>. QED  BY <1>7, <3>2, <3>3
  <2>2. UNCHANGED <<data, insights, mu, action, settled>> /\ page[p].step = "none"
    BY <1>7 DEF Get, GetRefreshed
  <2>3. \A v \in Versions : Due(v)' => Due(v)
    BY <2>1, <2>2 DEF Due
  <2>4. UpToDate'
    BY <2>1, <2>2, <2>3 DEF UpToDate
  <2>. QED  BY <2>1, <2>2, <2>4, <1>a DEF TypeOK, Past, ShowsWhatIsDue
<1>8. ASSUME NEW p \in Pages, InvalidateForPage(p)
      PROVE  IInv'
  <2>. DEFINE new == [page[p] EXCEPT !.step = "wait"]
  <2>1. new \in Page /\ new.step = "wait" /\ new.due = page[p].due
    BY <1>a DEF Page
  <2>2. page' = [page EXCEPT ![p] = new] /\ insights' = NoInsights /\ mu = Free
    BY <1>8 DEF InvalidateForPage, Show
  <2>3. UNCHANGED <<data, mu, action, settled>> /\ page[p].step = "refresh"
    BY <1>8 DEF InvalidateForPage
  <2>4. \A q \in Pages : page[q].step # "list" /\ page[q].step # "count"
    BY <2>2, FreeAssumption DEF TypeOK
  <2>. HIDE DEF new
  <2>. QED  BY <2>1, <2>2, <2>3, <2>4, <1>a
            DEF TypeOK, Past, UpToDate, Due, ShowsWhatIsDue
<1>9. ASSUME NEW p \in Pages, ShowCached(p)
      PROVE  IInv'
  <2>. DEFINE new == [page[p] EXCEPT !.step = "shown", !.total = insights.total, !.matches = insights.matches]
  <2>1. insights \in Insights /\ insights # NoInsights
    BY <1>9, <1>c DEF ShowCached, Cached
  <2>2. insights.total \in Versions /\ insights.matches \in Versions
    BY <2>1 DEF Insights
  <2>3. /\ new \in Page /\ new.step = "shown" /\ new.due = page[p].due
        /\ new.total = insights.total /\ new.matches = insights.matches
    BY <1>a, <2>2 DEF Page
  <2>4. page' = [page EXCEPT ![p] = new] /\ page[p].step = "wait"
    BY <1>9 DEF ShowCached, Show
  <2>5. UNCHANGED <<data, insights, mu, action, settled>>
    BY <1>9 DEF ShowCached
  <2>. HIDE DEF new
  <2>6. Due(page[p].due) /\ page[p].due \in Versions
    BY <2>4, <1>a DEF Due, Page
  <2>7. new.total >= new.due /\ new.matches >= new.due
    BY <2>1, <2>3, <2>6 DEF UpToDate
  <2>8. \A v \in Versions : Due(v)' => Due(v)
    BY <2>3, <2>4, <2>5 DEF Due
  <2>9. UpToDate'
    BY <2>3, <2>4, <2>5, <2>8 DEF UpToDate
  <2>. QED  BY <2>3, <2>4, <2>5, <2>7, <2>9, <1>a DEF TypeOK, Past, ShowsWhatIsDue
<1>10. ASSUME NEW p \in Pages, Compute(p)
       PROVE  IInv'
  <2>. DEFINE new == [page[p] EXCEPT !.step = "count"]
  <2>1. new \in Page /\ new.step = "count" /\ new.due = page[p].due
    BY <1>a DEF Page
  <2>2. page' = [page EXCEPT ![p] = new] /\ mu = Free /\ mu' = p /\ page[p].step = "wait"
    BY <1>10 DEF Compute, Show
  <2>3. UNCHANGED <<data, insights, action, settled>>
    BY <1>10 DEF Compute
  <2>. HIDE DEF new
  <2>4. \A v \in Versions : Due(v)' => Due(v)
    BY <2>1, <2>2, <2>3 DEF Due
  <2>5. UpToDate'
    BY <2>1, <2>2, <2>3, <2>4 DEF UpToDate
  <2>. QED  BY <2>1, <2>2, <2>3, <2>5, <1>a, FreeAssumption DEF TypeOK, Past, ShowsWhatIsDue
<1>11. ASSUME NEW p \in Pages, CountMatches(p)
       PROVE  IInv'
  <2>. DEFINE new == [page[p] EXCEPT !.step = "list", !.total = data]
  <2>1. new \in Page /\ new.step = "list" /\ new.due = page[p].due /\ new.total = data
    BY <1>a DEF Page
  <2>2. page' = [page EXCEPT ![p] = new] /\ page[p].step = "count"
    BY <1>11 DEF CountMatches, Show
  <2>3. UNCHANGED <<data, insights, mu, action, settled>>
    BY <1>11 DEF CountMatches
  <2>. HIDE DEF new
  <2>4. \A v \in Versions : Due(v)' => Due(v) /\ v <= data
    BY <2>1, <2>2, <2>3, <1>a, <1>b DEF Due, Past
  <2>5. UpToDate'
    BY <2>1, <2>2, <2>3, <2>4 DEF UpToDate, Versions
  <2>. QED  BY <2>1, <2>2, <2>3, <2>5, <1>a DEF TypeOK, Past, ShowsWhatIsDue
<1>12. ASSUME NEW p \in Pages, ListMatches(p)
       PROVE  IInv'
  <2>. DEFINE new == [page[p] EXCEPT !.step = "shown", !.matches = data]
              fresh == [total |-> page[p].total, matches |-> data, old |-> FALSE]
  <2>1. /\ new \in Page /\ new.step = "shown" /\ new.due = page[p].due
        /\ new.total = page[p].total /\ new.matches = data
    BY <1>a DEF Page
  <2>2. fresh \in Insights /\ fresh.total = page[p].total /\ fresh.matches = data
    BY <1>a DEF Page, Insights
  <2>3. /\ page' = [page EXCEPT ![p] = new] /\ page[p].step = "list"
        /\ insights' = fresh /\ mu' = Free
    BY <1>12 DEF ListMatches, Show
  <2>4. UNCHANGED <<data, action, settled>>
    BY <1>12 DEF ListMatches
  <2>. HIDE DEF new, fresh
  <2>5. \A v \in Versions : Due(v)' => Due(v) /\ v <= data
    BY <2>1, <2>3, <2>4, <1>a, <1>b DEF Due, Past
  <2>6. \A v \in Versions : Due(v) => page[p].total >= v
    BY <2>3 DEF UpToDate
  <2>7. UpToDate'
    BY <2>1, <2>2, <2>3, <2>4, <2>5, <2>6, NoInsightsAssumption DEF UpToDate, Versions
  <2>8. Due(page[p].due) /\ page[p].due \in Versions
    BY <2>3, <1>a DEF Due, Page
  <2>9. ShowsWhatIsDue'
    BY <2>1, <2>3, <2>6, <2>8, <1>a DEF ShowsWhatIsDue, Past
  <2>10. mu = p /\ \A q \in Pages \ {p} : page[q].step \notin {"count", "list"}
    BY <2>3 DEF TypeOK
  <2>11. TypeOK'
    BY <2>1, <2>2, <2>3, <2>4, <2>10, FreeAssumption DEF TypeOK
  <2>12. Past'
    BY <2>1, <2>3, <2>4 DEF Past
  <2>. QED  BY <2>7, <2>9, <2>11, <2>12
<1>13. ASSUME NEW p \in Pages, QueryFails(p)
       PROVE  IInv'
  <2>. DEFINE new == [page[p] EXCEPT !.step = "failed"]
  <2>1. new \in Page /\ new.step = "failed" /\ new.due = page[p].due
    BY <1>a DEF Page
  <2>2. page' = [page EXCEPT ![p] = new] /\ page[p].step \in {"count", "list"} /\ mu' = Free
    BY <1>13 DEF QueryFails, Show
  <2>3. UNCHANGED <<data, insights, action, settled>>
    BY <1>13 DEF QueryFails
  <2>. HIDE DEF new
  <2>4. \A v \in Versions : Due(v)' => Due(v)
    BY <2>1, <2>2, <2>3 DEF Due
  <2>5. UpToDate'
    BY <2>1, <2>2, <2>3, <2>4 DEF UpToDate
  <2>6. mu = p /\ \A q \in Pages \ {p} : page[q].step \notin {"count", "list"}
    BY <2>2 DEF TypeOK
  <2>. QED  BY <2>1, <2>2, <2>3, <2>5, <2>6, FreeAssumption DEF TypeOK, Past, ShowsWhatIsDue
<1>14. ASSUME NEW p \in Pages, Leave(p)
       PROVE  IInv'
  <2>1. /\ NoPage \in Page /\ NoPage.step = "none" /\ NoPage.due = 0
        /\ page' = [page EXCEPT ![p] = NoPage] /\ page[p].step \in {"shown", "failed"}
    BY <1>14 DEF Leave, Show, NoPage, Page
  <2>2. UNCHANGED <<data, insights, mu, action, settled>>
    BY <1>14 DEF Leave
  <2>3. \A v \in Versions : Due(v)' => Due(v)
    BY <2>1, <2>2 DEF Due
  <2>4. UpToDate'
    BY <2>1, <2>2, <2>3 DEF UpToDate
  <2>. QED  BY <2>1, <2>2, <2>4 DEF TypeOK, Past, ShowsWhatIsDue
<1>15. CASE UNCHANGED vars
  BY <1>15 DEF vars, TypeOK, Past, UpToDate, Due, ShowsWhatIsDue
<1>. QED  BY <1>1, <1>2, <1>3, <1>4, <1>5, <1>6, <1>7, <1>8, <1>9, <1>10,
             <1>11, <1>12, <1>13, <1>14, <1>15 DEF Next, ActionStep, PageStep

(* The mutex is held by exactly the page that runs its queries.            *)
THEOREM Typing == Spec => []TypeOK
<1>1. IInv => TypeOK
  BY DEF IInv
<1>. QED  BY InitInv, NextInv, <1>1, PTL DEF Spec

(* A page asked for after a purge, refresh or add was answered never shows *)
(* analytics older than that, however its queries and the cache interleave *)
(* with other pages and actions.                                           *)
THEOREM InsightsAreCurrent == Spec => []ShowsWhatIsDue
<1>1. IInv => ShowsWhatIsDue
  BY DEF IInv
<1>. QED  BY InitInv, NextInv, <1>1, PTL DEF Spec
=============================================================================
