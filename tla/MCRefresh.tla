----------------------------- MODULE MCRefresh -----------------------------
(* Instances of Refresh for TLC: one login that one account may claim. *)
EXTENDS Refresh

CONSTANTS u1, b1, telegram, tick, t1, empty, A

OneLogin == {u1}
OneBot == {b1}
OnTelegram == [b \in Bots |-> telegram]
OneList == {1}
TwoLists == {1, 2}
OneBody == {empty, A}
TwoTasks == {tick, t1}
AllOperations ==
    {"register", "suggest", "refreshNow", "purge", "unlink", "edit", "hide", "crash"}
LiveOperations == {"refreshNow", "purge", "edit", "hide", "crash"}
RegisterOnly == {"register"}
RegisterAndPurge == {"register", "purge"}
=============================================================================
