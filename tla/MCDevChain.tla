----------------------------- MODULE MCDevChain -----------------------------
(* The two halves of the development chain.  They share the identity roots  *)
(* and the file, of which each models what its own methods write; a         *)
(* behaviour follows one half while the other rests.                        *)
(*                                                                          *)
(* Credentials: one identity with two devices; the certificates differ in   *)
(* device, key, lifetime and root signature, so that every authorisation    *)
(* can conflict with another and every certificate can expire.  Names: two  *)
(* wallets and two names, so that a name changes hands and its former owner *)
(* takes the other; three candidates for a set of two or three validators.  *)
EXTENDS DevChain, ChainNames

CONSTANTS i1, d1, d2, k1, k2, s1, s2, p1, call1, w1, w2, j1, j2

MCCertificates ==
  {[account |-> i1, device |-> d1, key |-> k1, issuedAt |-> 0,
    expiresAt |-> 1, rootSigned |-> TRUE],
   [account |-> i1, device |-> d1, key |-> k2, issuedAt |-> 1,
    expiresAt |-> 2, rootSigned |-> TRUE],
   [account |-> i1, device |-> d2, key |-> k1, issuedAt |-> 0,
    expiresAt |-> 2, rootSigned |-> FALSE]}

MCIdentityOf == [w \in {w1, w2} |-> IF w = w1 THEN j1 ELSE j2]

VARIABLE half

halvesVars == <<chainVars, nameVars, half>>

HalvesInit == half \in {"credentials", "names"} /\ Init /\ NamesInit

HalvesNext ==
  /\ UNCHANGED half
  /\ \/ half = "credentials" /\ Next /\ UNCHANGED nameVars
     \/ half = "names" /\ NamesNext /\ UNCHANGED chainVars

HalvesSpec == HalvesInit /\ [][HalvesNext]_halvesVars
=============================================================================
