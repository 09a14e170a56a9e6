------------------------- MODULE AuthenticatorProofs -------------------------
(***************************************************************************)
(* Proofs that the authorization gate's safety properties hold for every   *)
(* set of secrets and roles and every bound on the allow list.             *)
(***************************************************************************)
EXTENDS Authenticator, TLAPS

\* Before construction nothing has been decided.
Unbuilt == ~built => last = NoDecision

AuthInv == TypeOK /\ Unbuilt /\ SecretEnforced /\ RolesHonoured

LEMMA InitAuthInv == Init => AuthInv
  <1> SUFFICES ASSUME Init PROVE AuthInv
    OBVIOUS
  <1>1. roles \in RoleLists
    <2>1. <<>> \in [1..0 -> Roles]
      OBVIOUS
    <2>5. MaxRoles \in Nat
      BY AuthAssumption, Zenon
    <2>4. 0 \in 0..MaxRoles
      BY <2>5
    <2>2. [1..0 -> Roles] \in {[1..n -> Roles] : n \in 0..MaxRoles}
      BY <2>4, Zenon
    <2>3. QED
      BY <2>1, <2>2, Zenon DEF Init, RoleLists
  <1>2. last \in Decision
    BY DEF Init, NoDecision, Decision, Headers, Levels, Reasons
  <1>3. QED
    BY <1>1, <1>2 DEF Init, AuthInv, TypeOK, Unbuilt, SecretEnforced, RolesHonoured,
                      NoDecision, Allowing

\* Every outcome authorize can return is one of Reasons.
LEMMA OutcomesType ==
  ASSUME NEW level \in Levels, NEW h \in Headers
  PROVE  Outcomes(level, h) \subseteq Reasons
  BY DEF Outcomes, Reasons

\* An admitting outcome with a validator is a fully checked token.
LEMMA GrantedChecked ==
  ASSUME NEW level \in Levels, NEW h \in Headers, validator = TRUE,
         NEW o \in Outcomes(level, h), o \in Allowing
  PROVE  /\ h \in Tokens
         /\ Permitted(level, Validate(h))
         /\ IsRoleAllowed(roles, RequiredRole(level))
  <1>1. o = "granted"
    BY DEF Outcomes, Allowing
  <1>2. Validate(h).valid
    BY <1>1 DEF Outcomes
  <1>3. h \in Tokens
    BY <1>2 DEF Validate
  <1>4. Permitted(level, Validate(h))
    BY <1>1, <1>2 DEF Outcomes
  <1>5. IsRoleAllowed(roles, RequiredRole(level))
    BY <1>1, <1>2, <1>4 DEF Outcomes, IsRoleAllowed
  <1>6. QED
    BY <1>3, <1>4, <1>5

\* An admitting outcome never skips the allow list's role.
LEMMA AllowedRole ==
  ASSUME NEW level \in Levels, NEW h \in Headers,
         validator = FALSE => /\ allowViewer => IsRoleAllowed(roles, "viewer")
                              /\ allowControl => IsRoleAllowed(roles, "controller"),
         NEW o \in Outcomes(level, h), o \in Allowing
  PROVE  IsRoleAllowed(roles, RequiredRole(level))
  <1>1. CASE o = "anonymous"
    BY <1>1 DEF Outcomes, RequiredRole, Levels
  <1>2. CASE o = "granted"
    BY <1>2 DEF Outcomes, IsRoleAllowed
  <1>3. QED
    BY <1>1, <1>2 DEF Allowing

\* The constructor's flags agree with the allow list whenever there is no
\* validator, which is what keeps the anonymous shortcut within the list.
FlagsFollowRoles ==
    built /\ ~validator =>
        /\ allowViewer => IsRoleAllowed(roles, "viewer")
        /\ allowControl => IsRoleAllowed(roles, "controller")

LEMMA InitFlags == Init => FlagsFollowRoles
  BY DEF Init, FlagsFollowRoles

LEMMA NextFlags == FlagsFollowRoles /\ [Next]_vars => FlagsFollowRoles'
  <1> SUFFICES ASSUME FlagsFollowRoles, [Next]_vars PROVE FlagsFollowRoles'
    OBVIOUS
  <1>1. ASSUME NEW s \in Secrets, NEW rl \in RoleLists, Construct(s, rl)
        PROVE  FlagsFollowRoles'
    BY <1>1 DEF Construct, FlagsFollowRoles, IsRoleAllowed
  <1>2. ASSUME NEW level \in Levels, NEW h \in Headers, Authorize(level, h)
        PROVE  FlagsFollowRoles'
    BY <1>2 DEF Authorize, FlagsFollowRoles
  <1>3. CASE Crashed \/ UNCHANGED vars
    BY <1>3 DEF Crashed, vars, FlagsFollowRoles
  <1>4. QED
    BY <1>1, <1>2, <1>3 DEF Next

LEMMA NextAuthInv == AuthInv /\ FlagsFollowRoles /\ [Next]_vars => AuthInv'
  <1> SUFFICES ASSUME AuthInv, FlagsFollowRoles, [Next]_vars PROVE AuthInv'
    OBVIOUS
  <1>1. ASSUME NEW s \in Secrets, NEW rl \in RoleLists, Construct(s, rl)
        PROVE  AuthInv'
    <2>1. last' = NoDecision
      BY <1>1 DEF Construct, AuthInv, Unbuilt
    <2>2. TypeOK'
      BY <1>1 DEF Construct, AuthInv, TypeOK, IsRoleAllowed
    <2>3. QED
      BY <2>1, <2>2 DEF AuthInv, Unbuilt, SecretEnforced, RolesHonoured, NoDecision,
                        Allowing
  <1>2. ASSUME NEW level \in Levels, NEW h \in Headers, Authorize(level, h)
        PROVE  AuthInv'
    <2>1. PICK o \in Outcomes(level, h) :
                 last' = [level |-> level, header |-> h, reason |-> o,
                          ub |-> ReachesEmptyValidator(level, h)]
      BY <1>2 DEF Authorize
    <2>2. UNCHANGED <<built, validator, allowViewer, allowControl, roles>>
      BY <1>2 DEF Authorize
    <2>3. o \in Reasons
      BY OutcomesType
    <2>4. TypeOK'
      BY <2>1, <2>2, <2>3 DEF AuthInv, TypeOK, Decision, ReachesEmptyValidator
    <2>5. Unbuilt'
      BY <1>2, <2>2 DEF Authorize, Unbuilt
    <2>6. SecretEnforced'
      BY <2>1, <2>2, GrantedChecked DEF SecretEnforced
    <2>7. RolesHonoured'
      BY <1>2, <2>1, <2>2, AllowedRole DEF RolesHonoured, FlagsFollowRoles, Authorize
    <2>8. QED
      BY <2>4, <2>5, <2>6, <2>7 DEF AuthInv
  <1>3. CASE Crashed \/ UNCHANGED vars
    BY <1>3 DEF Crashed, vars, AuthInv, TypeOK, Unbuilt, SecretEnforced, RolesHonoured
  <1>4. QED
    BY <1>1, <1>2, <1>3 DEF Next

\* With a token secret configured, every admitted request carried an
\* accepted token of sufficient scope and permitted role (the anonymous
\* shortcut of Authenticator::authorize stays closed), for every
\* configuration parse_security can produce.
THEOREM SecretAlwaysEnforced == Spec => []SecretEnforced
  <1>1. Init => AuthInv /\ FlagsFollowRoles
    BY InitAuthInv, InitFlags
  <1>2. AuthInv /\ FlagsFollowRoles /\ [Next]_vars => (AuthInv /\ FlagsFollowRoles)'
    BY NextAuthInv, NextFlags
  <1>3. QED
    BY <1>1, <1>2, PTL DEF Spec, AuthInv

\* A configured allow list is honoured by authorize in both modes, with
\* and without a secret: no level whose role the list omits is admitted.
THEOREM RolesAlwaysHonoured == Spec => []RolesHonoured
  <1>1. Init => AuthInv /\ FlagsFollowRoles
    BY InitAuthInv, InitFlags
  <1>2. AuthInv /\ FlagsFollowRoles /\ [Next]_vars => (AuthInv /\ FlagsFollowRoles)'
    BY NextAuthInv, NextFlags
  <1>3. QED
    BY <1>1, <1>2, PTL DEF Spec, AuthInv

=============================================================================
