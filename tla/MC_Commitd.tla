----------------------------- MODULE MC_Commitd -----------------------------
(***************************************************************************)
(* An instance of Commitd after data/config-mode-dependencies: pki runs    *)
(* vpn_ipsec and vpn_sstp, and registers them once per changed certificate *)
(* they use; vpn_ipsec runs protocols_nhrp and ignores its errors;         *)
(* interfaces_wireguard calls call_dependents unconditionally.             *)
(***************************************************************************)
EXTENDS Commitd

CONSTANTS pki, vpn_ipsec, vpn_sstp, nhrp, wireguard, unknown

MCScripts == {pki, vpn_ipsec, vpn_sstp, nhrp, wireguard}

MCRegisters ==
    [s \in MCScripts |->
        CASE s = pki       -> {<<>>, <<vpn_ipsec, vpn_sstp>>,
                             <<vpn_ipsec, vpn_sstp, vpn_ipsec>>}
          [] s = vpn_ipsec -> {<<>>, <<nhrp>>}
          [] OTHER         -> {<<>>}]
=============================================================================
