---------------------------- MODULE MCCoAttestation ----------------------------
(* Instances of CoAttestation for TLC. *)
EXTENDS CoAttestation
CONSTANTS m1, m2

MCMember == {m1, m2}
MCFounder == {m1}

\* The two bodies of one member before and after the platform's attestation.
MCBody == {[signer |-> m1, uid |-> NoUid], [signer |-> m1, uid |-> Uid]}
================================================================================
