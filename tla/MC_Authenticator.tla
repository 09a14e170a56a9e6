--------------------------- MODULE MC_Authenticator ---------------------------
EXTENDS Authenticator

\* A configured secret and the absent one.
MCSecrets == {"", "k1"}

MCRoles == {"viewer", "controller", "admin"}

=============================================================================
