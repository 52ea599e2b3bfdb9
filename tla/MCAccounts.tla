----------------------------- MODULE MCAccounts -----------------------------
(* Accounts on small instances: a YouTube and an Instagram cut, two logins. *)
EXTENDS Accounts, TLC

CONSTANTS s1, s2, b1, b2, t1, t2, yt, ig, ann, bob

Platforms == [c \in Cuts |-> IF c = ig THEN "instagram" ELSE "youtube"]

Interchangeable == Permutations(States) \cup Permutations(Callbacks)
                     \cup Permutations(Tasks) \cup Permutations(Accounts)
=============================================================================
