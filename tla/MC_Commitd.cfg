CONSTANTS
    pki = pki
    vpn_ipsec = vpn_ipsec
    vpn_sstp = vpn_sstp
    nhrp = nhrp
    wireguard = wireguard
    unknown = unknown
    Scripts <- MCScripts
    Missing = {unknown}
    Registers <- MCRegisters
    Callers = {pki, vpn_ipsec, wireguard}
    Guarded = {pki, vpn_ipsec}
    Ignorers = {vpn_ipsec}
    MaxCommits = 2
    MaxCalls = 2
SPECIFICATION Spec
INVARIANTS
    TypeOK
    Settled
    CallIsolated
    OwnConfig
    FrrFollows
PROPERTIES
    SessionEnds
    RefinesWork
