----------------------------- MODULE MCRateLimit -----------------------------
(***************************************************************************)
(* Two keys, one model and one provider under two configurations: before   *)
(* and after a hot reload that lowers both limits of the first key, or     *)
(* removes it.                                                             *)
(***************************************************************************)
EXTENDS RateLimit, TLC

Lim(rpm, concurrency) == [rpm |-> rpm, tpm |-> None, concurrency |-> concurrency]

Unlimited == Lim(None, None)

Config(k1, provider) ==
  [key_limits      |-> IF k1 = None THEN <<>>
                       ELSE [k \in {"k1", "k2"} |-> IF k = "k1" THEN k1 ELSE Unlimited],
   model_limits    |-> [m \in {"m"} |-> Unlimited],
   provider_limits |-> [p \in {"p"} |-> provider]]

Calling(snapshot, key_id) ==
  [snapshot |-> snapshot, key_id |-> key_id, model_name |-> "m", provider_id |-> "p"]

\* One key before and after its limits were lowered, with the provider's
\* concurrency limit as the fallback after, and after it was removed while its
\* request was on the way.
Calls == {Calling(Config(Lim(2, 2), Unlimited), "k1"),
          Calling(Config(Lim(1, None), Lim(None, 1)), "k1"),
          Calling(Config(None, Lim(None, 1)), "k1")}

\* By a name of its own: TLC then computes the set only once.
MCCall == Calls

\* Two keys that leave everything to their provider.
LayeredCall == {Calling(Config(Unlimited, Lim(None, 1)), k) : k \in {"k1", "k2"}}

\* One key with an rpm limit, for the liveness run.
HangingCall == {Calling(Config(Lim(1, 1), Unlimited), "k1")}

Symmetry == Permutations(Request)
=============================================================================
