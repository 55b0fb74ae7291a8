-------------------------- MODULE SigningAuthority --------------------------
(***************************************************************************)
(* What observation authentication promises to its callers: a provider     *)
(* scope has at most one signing key for ever, and every request that gets *)
(* a key gets that one.  ObservationKey implements it.                     *)
(***************************************************************************)
CONSTANTS Keys, NoKey

VARIABLES authority,  \* the established key, or NoKey
          granted     \* every key some request was ever given

authorityVars == <<authority, granted>>

Init == /\ authority \in Keys \cup {NoKey}
        /\ granted = {}

Establish(k) == /\ authority = NoKey
                /\ authority' = k
                /\ UNCHANGED granted

Grant == /\ authority # NoKey
         /\ granted' = granted \cup {authority}
         /\ UNCHANGED authority

Next == Grant \/ \E k \in Keys : Establish(k)

Spec == Init /\ [][Next]_authorityVars
=============================================================================
