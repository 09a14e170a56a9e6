---------------------------- MODULE Authenticator ----------------------------
(***************************************************************************)
(* The authorization gate rcc::auth::Authenticator (first draft of         *)
(* authenticator.cpp).  The constructor turns the security section of the *)
(* configuration into an optional bearer validator and two allow flags;    *)
(* authorize(request, level) then decides each request from those alone.   *)
(*                                                                         *)
(* The object is immutable after construction, so the model constructs it  *)
(* once from any configuration parse_security can produce and then decides *)
(* any sequence of requests.  Token cryptography is the external           *)
(* BearerValidator: a header is either absent, a token it rejects, or a    *)
(* token it accepts carrying a scope.                                      *)
(***************************************************************************)
EXTENDS Naturals, Sequences

CONSTANTS
    Secrets,    \* values of security.token_secret ("" when absent)
    Roles,      \* role names that may appear in security.allowed_roles
    MaxRoles,   \* bound on the length of allowed_roles
    NoHeader,   \* request without an "authorization" header
    BadToken    \* a header the bearer validator rejects

ASSUME AuthAssumption ==
    /\ "" \in Secrets
    /\ Secrets \subseteq STRING
    /\ Roles \subseteq STRING
    /\ MaxRoles \in Nat
    /\ NoHeader # BadToken

\* dts::common::security::Scope carried by a valid token.
TokenScopes == {"Viewer", "Operator", "Admin"}

\* Bearer tokens the validator accepts, one per scope.
Tokens == [scope : TokenScopes]

Headers == {NoHeader, BadToken} \cup Tokens

Levels == {"Telemetry", "Control"}

\* allowed_roles as parse_security builds it: the YAML sequence, in order.
RoleLists == UNION {[1..n -> Roles] : n \in 0..MaxRoles}

\* What authorize returns, by the message it sets (or how it ends).
Reasons == {"anonymous", "missing_header", "invalid_token",
            "insufficient_scope", "role_not_permitted", "granted", "crash"}

Allowing == {"anonymous", "granted"}

\* BearerValidator::validate: the token's validity and scope.
Validate(h) ==
    IF h \in Tokens THEN [valid |-> TRUE, scope |-> h.scope]
                    ELSE [valid |-> FALSE, scope |-> "Viewer"]

\* hasViewerOrHigher / hasOperatorOrHigher.
Permitted(level, info) ==
    IF level = "Telemetry" THEN info.scope \in TokenScopes
                           ELSE info.scope \in {"Operator", "Admin"}

\* is_role_allowed: an empty list allows every role.
IsRoleAllowed(rl, role) == rl = <<>> \/ \E i \in DOMAIN rl : rl[i] = role

RequiredRole(level) == IF level = "Telemetry" THEN "viewer" ELSE "controller"

VARIABLES
    built,          \* the Authenticator has been constructed
    validator,      \* validator_.has_value()
    allowViewer,    \* allow_unauthenticated_viewer_
    allowControl,   \* allow_unauthenticated_control_
    roles,          \* allowed_roles_
    last            \* the last request decided and its outcome

vars == <<built, validator, allowViewer, allowControl, roles, last>>

Decision == [level : Levels, header : Headers, reason : Reasons, ub : BOOLEAN]

NoDecision == [level |-> "Telemetry", header |-> NoHeader, reason |-> "missing_header",
               ub |-> FALSE]

TypeOK ==
    /\ built \in BOOLEAN
    /\ validator \in BOOLEAN
    /\ allowViewer \in BOOLEAN
    /\ allowControl \in BOOLEAN
    /\ roles \in RoleLists
    /\ last \in Decision

Init ==
    /\ built = FALSE
    /\ validator = FALSE
    /\ allowViewer = FALSE
    /\ allowControl = FALSE
    /\ roles = <<>>
    /\ last = NoDecision

\* Mutant: the allow-list branch runs before the no-secret branch, so a
\* missing secret re-opens both levels whatever allowed_roles says.
ConstructNoSecretLast(secret, rl) ==
    /\ ~built
    /\ built' = TRUE
    /\ validator' = (secret # "")
    /\ roles' = rl
    /\ allowViewer' = (rl = <<>> \/ secret = "" \/ IsRoleAllowed(rl, "viewer"))
    /\ allowControl' = (secret = "" \/ (rl # <<>> /\ IsRoleAllowed(rl, "controller")))
    /\ UNCHANGED last

\* Authenticator(config): a validator when the secret is non-empty,
\* otherwise both flags set; then the allow list overrides both flags
\* (an empty list sets only the viewer flag).
Construct(secret, rl) ==
    /\ ~built
    /\ built' = TRUE
    /\ validator' = (secret # "")
    /\ roles' = rl
    /\ allowViewer' = (rl = <<>> \/ IsRoleAllowed(rl, "viewer"))
    /\ allowControl' = IF rl = <<>> THEN secret = "" ELSE IsRoleAllowed(rl, "controller")
    /\ UNCHANGED last

\* Mutant: the anonymous shortcut is taken whether or not a validator exists.
OutcomesAnyValidator(level, h) ==
    IF (level = "Telemetry" /\ allowViewer) \/ (level = "Control" /\ allowControl)
    THEN {"anonymous"}
    ELSE IF h = NoHeader THEN {"missing_header"}
    ELSE IF ~validator THEN {"crash", "invalid_token"}
    ELSE IF ~Validate(h).valid THEN {"invalid_token"}
    ELSE IF ~Permitted(level, Validate(h)) THEN {"insufficient_scope"}
    ELSE IF roles # <<>> /\ ~IsRoleAllowed(roles, RequiredRole(level))
    THEN {"role_not_permitted"}
    ELSE {"granted"}

\* authorize's early returns, in the order the code tests them.  With no
\* validator and no anonymous shortcut, validator_->validate dereferences
\* an empty optional: undefined behaviour, whose outcomes in the build are
\* a crash or a call on garbage storage that rejects the token.
Outcomes(level, h) ==
    IF ~validator /\ ((level = "Telemetry" /\ allowViewer) \/ (level = "Control" /\ allowControl))
    THEN {"anonymous"}
    ELSE IF h = NoHeader THEN {"missing_header"}
    ELSE IF ~validator THEN {"crash", "invalid_token"}
    ELSE IF ~Validate(h).valid THEN {"invalid_token"}
    ELSE IF ~Permitted(level, Validate(h)) THEN {"insufficient_scope"}
    ELSE IF roles # <<>> /\ ~IsRoleAllowed(roles, RequiredRole(level))
    THEN {"role_not_permitted"}
    ELSE {"granted"}

\* Whether deciding (level, h) reaches the dereference at line 42.
ReachesEmptyValidator(level, h) ==
    /\ ~validator
    /\ ~((level = "Telemetry" /\ allowViewer) \/ (level = "Control" /\ allowControl))
    /\ h # NoHeader

\* authorize(request, level) on a live process.
Authorize(level, h) ==
    /\ built
    /\ last.reason # "crash"
    /\ \E o \in Outcomes(level, h) :
          last' = [level |-> level, header |-> h, reason |-> o,
                   ub |-> ReachesEmptyValidator(level, h)]
    /\ UNCHANGED <<built, validator, allowViewer, allowControl, roles>>

\* A process that crashed in authorize decides nothing more.
Crashed == last.reason = "crash" /\ UNCHANGED vars

Next ==
    \/ Crashed
    \/ \E s \in Secrets, rl \in RoleLists : Construct(s, rl)
    \/ \E level \in Levels, h \in Headers : Authorize(level, h)

Spec == Init /\ [][Next]_vars

-----------------------------------------------------------------------------
(***************************************************************************)
(* Properties                                                              *)
(***************************************************************************)

\* With a token secret configured, authorize admits a request only with a
\* token the validator accepts, whose scope covers the level, and whose
\* required role the allow list names: the anonymous shortcut of lines
\* 27-35 must stay closed although the constructor may set its flags.
SecretEnforced ==
    (built /\ validator /\ last.reason \in Allowing) =>
        /\ last.header \in Tokens
        /\ Permitted(last.level, Validate(last.header))
        /\ IsRoleAllowed(roles, RequiredRole(last.level))

\* A configured allow list is honoured in both modes: no request for a
\* level whose role the list omits is admitted, anonymously or not.
RolesHonoured ==
    (built /\ last.reason \in Allowing) => IsRoleAllowed(roles, RequiredRole(last.level))

\* authorize never dereferences the empty validator_ (line 42): the spec
\* says the gate returns an allow/deny decision for every credential.
AuthorizeDefined == ~last.ub

=============================================================================
