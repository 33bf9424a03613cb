----------------------------- MODULE MCPlayback -----------------------------
(***************************************************************************)
(* Playback for TLC.  Requests, tokens and accounts are only compared for  *)
(* equality.  The runs that are about tokens and relays start where each   *)
(* provider has one medium of the song, the one it is asked for first or   *)
(* last: which media there are makes no difference to a token.             *)
(***************************************************************************)
EXTENDS Playback

PlaySymmetry == Permutations(Handlers) \cup Permutations(Tokens) \cup Permutations(Cookies)

OneMediumEach == Init /\ offered = [cookie \in Cookies |-> {"exhigh", "durl"}]

SpecTokens == OneMediumEach /\ [][Next]_vars
=============================================================================
