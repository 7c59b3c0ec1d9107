------------------------------ MODULE MC_Bridge -----------------------------
(***************************************************************************)
(* Bridge with two networks in range and one that is not, a form that is   *)
(* complete, and one that changes to the network that is not there and to  *)
(* a password that the device does not accept, with a name that is too     *)
(* long, a number out of range and fields left empty.                      *)
(***************************************************************************)
EXTENDS Bridge

\* The settings of a form, field by field.
Form(ssid, pass, apSsid, apPass, country, buffer, lang) ==
    [h_ssid |-> ssid, h_pass |-> pass, ap_ssid |-> apSsid, ap_pass |-> apPass,
     country |-> country, buffer |-> buffer, lang |-> lang]

Factory == Form("n1", "k1", "a1", "long1", "US", 2, 0)
AllNetworks == {<<"n1", "k1">>, <<"n2", "k2">>, <<"n3", "k3">>}
InRangeNow == {<<"n1", "k1">>, <<"n2", "k2">>}
KnownCountries == {"US", "EU"}
LongPasswords == {"long1", "long2"}
LongTexts == {"name of more than 31 characters"}

SomeForms ==
    {Form("n2", "k2", "a1", "long1", "EU", 2, 1),
     Form("n3", "k3", "name of more than 31 characters", "short", Empty, 7, Empty)}
=============================================================================
