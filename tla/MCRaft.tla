----------------------------------- MODULE MCRaft -----------------------------------
(* Raft and its tester for TLC. A scope is a schedule of elections with the entries  *)
(* and the faults that go with it.                                                   *)
EXTENDS Tester, TLC

CONSTANTS s1, s2, s3, a

Scope(elections, accepts) ==
    [elections |-> elections, accepts |-> accepts, rounds |-> 1 .. 9, lossy |-> 0 .. 9,
     restarts |-> 0, votes |-> 1, appends |-> 1,
     one |-> FALSE, retry |-> FALSE, expected |-> 0, sweep |-> {}]

UpTo(n) == (1 .. 9) \X (1 .. n)

\* s1 and s2 stand against each other in term 1, and s2 once more, with old votes in
\* flight; only the leader of term 2 sends rounds.
Rivals ==
    [Scope({<<s1, 1>>, <<s2, 1>>, <<s2, 2>>}, UpTo(1)) EXCEPT !.votes = 3, !.rounds = {2}]

\* s1 may lead in term 1, s2 in term 2, s1 in term 3 and s2 in term 4; the first two take
\* an entry each. The calls of term 4 all arrive.
Contested ==
    [Scope({<<s1, 1>>, <<s2, 2>>, <<s1, 3>>, <<s2, 4>>}, {<<1, 1>>, <<2, 1>>}) EXCEPT
        !.rounds = {1, 3, 4}, !.lossy = {1, 2, 3}]

\* s1 leads first, s2 second, and s1 may return; logs of two entries.
Returning ==
    [Scope({<<s1, 1>>, <<s2, 2>>, <<s1, 3>>}, {<<1, 1>>, <<1, 2>>, <<2, 1>>}) EXCEPT
        !.rounds = {2, 3}]

\* s1 leads, servers crash twice, and s1 may lead again.
Crashing == [Scope({<<s1, 1>>, <<s1, 2>>}, UpTo(1)) EXCEPT !.restarts = 2]

\* one is called, with retries, while leadership passes from s1 to s2.
Submitting ==
    [Scope({<<s1, 1>>, <<s2, 2>>}, {<<1, 1>>, <<2, 1>>}) EXCEPT
        !.one = TRUE, !.retry = TRUE, !.expected = 2]

\* checkOneLeader asks around while s1 and s2 stand against each other.
Sweeping ==
    [Scope({<<s1, 1>>, <<s2, 1>>}, {}) EXCEPT !.votes = 3, !.sweep = Server, !.rounds = {}]

AllScopes ==
    [rivals |-> Rivals, contested |-> Contested, returning |-> Returning,
     crashing |-> Crashing, submitting |-> Submitting, sweeping |-> Sweeping]

\* One restart while everybody may stand; no broadcasts.
OpenVote == [open |->
    [Scope(Server \X {1, 2}, {}) EXCEPT !.votes = 3, !.restarts = 1, !.rounds = {}]]

\* Several rounds of AppendEntries of s1 in flight at once, then s3 leads.
Overtaking == [overtaking |->
    [Scope({<<s1, 1>>, <<s3, 2>>}, UpTo(1)) EXCEPT !.appends = 3]]

\* s1 leads in terms 1, 3 and 5, s2 in 2, 4 and 6. s1 takes two entries in term 1, s2
\* one in term 2, and each one more at the end.
Alternating == [alternating |->
    [Scope({<<s1, 1>>, <<s2, 2>>, <<s1, 3>>, <<s2, 4>>, <<s1, 5>>, <<s2, 6>>},
           {<<1, 1>>, <<1, 2>>, <<2, 1>>, <<5, 2>>, <<6, 2>>})
     EXCEPT !.rounds = {3, 4, 5, 6}, !.lossy = {3}]]

\* s1 and s2 lead in turn, s1 with two entries of term 1 and s2 with one of term 2, and
\* find each other's entries in the way in terms 3 and 4.
Aliasing == [aliasing |->
    [Scope({<<s1, 1>>, <<s2, 2>>, <<s1, 3>>, <<s2, 4>>},
           {<<1, 1>>, <<1, 2>>, <<2, 1>>})
     EXCEPT !.rounds = {3, 4}, !.lossy = {4}, !.appends = 2, !.votes = 2]]
=====================================================================================
