---------------------------- MODULE MCEnrollment -----------------------------
(* Enrollment for TLC. *)
EXTENDS Enrollment, TLC

\* The second bundle comes from a new CA of the same name, without a list.
MCCaOf      == <<1, 2, 2, 2, 2>>
MCSubjectOf == <<"Root CA", "Root CA">>

\* server.pem and server.key, the names of config.yaml.example, share server.tmp.
MCTempOf == [ca |-> "ca", cert |-> "server", key |-> "server", crl |-> "crl"]

Scenario(r, e, s, d, x, k, g, a) ==
    [runs |-> r, errors |-> e, signals |-> s, denials |-> d, expiries |-> x, deaths |-> k,
     purges |-> g, again |-> a]

\* The service alone, with each fault once; with two deaths; with a run of the
\* administrator beside it.
MCBudgets ==
    { Scenario(0, 1, 0, 1, 1, 1, 1, 1), Scenario(0, 1, 0, 0, 1, 2, 0, 1),
      Scenario(1, 0, 1, 0, 0, 0, 0, 1) }

=============================================================================
