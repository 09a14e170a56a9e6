CONSTANTS
    Secrets <- MCSecrets
    Roles <- MCRoles
    MaxRoles = 2
    NoHeader = NoHeader
    BadToken = BadToken
SPECIFICATION Spec
INVARIANT
    AuthorizeDefined
