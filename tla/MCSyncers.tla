------------------------------ MODULE MCSyncers ------------------------------
(* Instances of Syncers for TLC: which feed is synced with which token flow, *)
(* which of the provider's items carry a date that can be read, and which    *)
(* are listed at first.                                                      *)
EXTENDS Syncers

CONSTANTS s1, s2, a, b

MCSyncs == {s1, s2}
MCItems == {a, b}

Setup(f, g, ka, kb, l) ==
  [feed |-> f, flow |-> g, kind |-> [i \in MCItems |-> IF i = a THEN ka ELSE kb], listed |-> l]

MCSetups == {Setup("accounts", "client_credentials", "dated", "undated", {a, b}),
             Setup("collateral", "static", "dated", "undated", {a}),
             Setup("balances", "client_credentials", "dated", "garbled", {a}),
             Setup("transactions", "client_credentials", "dated", "undated", {a, b}),
             Setup("transactions", "authcode", "garbled", "dated", {a, b})}
=============================================================================
