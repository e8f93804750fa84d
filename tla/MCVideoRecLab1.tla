-------------------------------- MODULE MCVideoRecLab1 --------------------------------
(* VideoRecLab1 and Clients for TLC: a user with two creators who like a video in       *)
(* common, a user who follows nobody, one who follows somebody without likes.           *)
EXTENDS Clients
CONSTANT r1

FewUsers ==
    [u \in {200000, 200001, 203584, 203999, 204054, 204999} |->
        CASE u = 204054 -> makeRandomUser(u, <<200000, 204054, 200001>>, <<>>)
          [] u = 203584 -> makeRandomUser(u, <<200001>>, <<1000>>)
          [] u = 203999 -> makeRandomUser(u, <<203584>>, <<>>)
          [] u = 200000 -> makeRandomUser(u, <<203584>>, <<1300>>)
          [] u = 204999 -> makeRandomUser(u, <<>>, <<>>)
          [] u = 200001 -> makeRandomUser(u, <<204054>>, <<1000, 1300>>)]
FewVideos == {1000, 1300}
Drawn == <<1300, 1000, 1300>>

\* The coefficients make the sums wrap around; the "hash functions" are simple mixtures.
SomeText(pw, c, salt) == [k \in 1 .. 24 |-> (11 * k + 29 * pw[1] + 7 * c + salt[1]) % 256]
Mix32(n) == 7 * n + 3
Mix64(bytes) == FoldLeft(LAMBDA a, b : (5 * a + b) % 1009, 7, bytes)
Nibble == 16
UserFeatures == [u \in DOMAIN FewUsers |-> [f \in 1 .. 3 |-> f + (u % 7)]]
VideoFeatures == [v \in FewVideos |-> [f \in {1, 3, 4} |-> 3 * f + (v % 5) + (v % 7)]]

Calm == DefaultUserServiceOptions.Config
Flaky == [FailureRate |-> 2, ResponseOmissionRate |-> 0]
Mute == [FailureRate |-> 0, ResponseOmissionRate |-> 1]
NoOmission == {Calm, Flaky}

Flags(retry, fallback, isMock) ==
    [MaxBatchSize |-> 2, retry |-> retry, fallback |-> fallback, isMock |-> isMock]
Scene(flags, u, v, config, asked, rounds, changes, probes, ends) ==
    [opt |-> flags, limits |-> [s \in Service |-> IF s = "user" THEN u ELSE v],
     config |-> config, asked |-> asked, rounds |-> rounds, sets |-> changes,
     probes |-> probes, ends |-> ends, program |-> "tests", monitor |-> FALSE]

Main == {<<204054, 1>>}
Odd == {<<204054, -1>>, <<0, 0>>, <<204999, 1>>, <<200001, 0>>, <<209999, 0>>}

\* The batch sizes are learnt while a request is under way.
Probing ==
    {Scene(Flags(TRUE, FALSE, FALSE), 1, 2, Calm, Main, 0, 0, {"user"}, {"expired"}),
     Scene(Flags(FALSE, FALSE, FALSE), 2, 1, Flaky, Main \cup Odd, 0, 0, Service, {"canceled"})}
\* The cache is filled, in part or whole, while a request falls back to it.
Falling ==
    {Scene(Flags(FALSE, TRUE, FALSE), 1, 2, Calm, Main, 2, 0, {}, {}),
     Scene(Flags(TRUE, TRUE, FALSE), 1, 2, Flaky, {<<203999, 1>>}, 1, 0, {}, {}),
     Scene(Flags(FALSE, TRUE, FALSE), 1, 1, Mute, Main \cup Odd, 1, 1, {}, {"expired"})}
\* The mock clients, while failures are injected. They have no deadline: a
\* response that is omitted would be waited for forever.
Mocking ==
    {Scene(Flags(FALSE, TRUE, TRUE), DefaultUserServiceOptions.MaxBatchSize,
           DefaultVideoServiceOptions.MaxBatchSize, Flaky, {<<203584, 1>>}, 1, 0, {}, {})}

\* The programs of cmd.
Calling ==
    {[Scene(Flags(FALSE, TRUE, FALSE), 1, 2, Calm, {}, 1, 0, {}, {}) EXCEPT !.program = "loadgen"],
     [Scene(Flags(FALSE, TRUE, FALSE), 2, 2, Calm, {}, 1, 0, {}, {}) EXCEPT !.program = "frontend"],
     [Scene(Flags(FALSE, TRUE, TRUE), 2, 2, Calm, {<<200001, 1>>}, 1, 0, {}, {}) EXCEPT !.monitor = TRUE]}
FewScenes == Probing \cup Falling \cup Mocking \cup Calling
Tested == <<203584, 203999>>
======================================================================================
