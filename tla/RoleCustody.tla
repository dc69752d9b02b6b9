---------------------------- MODULE RoleCustody -----------------------------
(* What the UC-5 ceremonies promise together: the signer's runtime role is  *)
(* cut only by the holder of the maintenance marker, the marker never       *)
(* changes hands directly, and it is given up only with the role in place.  *)
(* Uc5Ceremony implements this with separate reads and writes to two        *)
(* services, requests that are lost or late, and cleanups that may fail.    *)

CONSTANTS Holder,   \* whoever may hold the marker
          Nobody

VARIABLES marker,   \* the holder of the maintenance marker
          role      \* the runtime role in Vault: exact or absent

Init == marker = Nobody /\ role = "exact"

Take(h) == marker = Nobody /\ marker' = h /\ UNCHANGED role
Cut == marker # Nobody /\ role = "exact" /\ role' = "absent" /\ UNCHANGED marker
Restore == role = "absent" /\ role' = "exact" /\ UNCHANGED marker
GiveUp == role = "exact" /\ marker # Nobody /\ marker' = Nobody /\ UNCHANGED role

Next == Cut \/ Restore \/ GiveUp \/ \E h \in Holder : Take(h)

Spec == Init /\ [][Next]_<<marker, role>>
=============================================================================
