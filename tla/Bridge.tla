------------------------------- MODULE Bridge -------------------------------
(***************************************************************************)
(* The life of the device from one start to the next: the settings in flash*)
(* (settings.c), the start-up that uses them (app_main, mm_app_loadconfig.c*)
(* and nat_router.c), the web server whose single task                     *)
(* changes them (web_config.c), and the reconnection timer that reads them *)
(* again.  Flash is written field by field and survives a reset; anything  *)
(* else does not.  An operator named X_... beside X is a mistake in that   *)
(* code which the properties must notice; no specification uses it.        *)
(***************************************************************************)
EXTENDS Naturals, Sequences, FiniteSets

CONSTANTS
    Default,        \* DEFAULT_...: settings of a device that has stored none
    Forms,          \* what users submit
    Empty,          \* a field that a form leaves empty or does not have
    Absent,         \* a key that flash does not have
    TooLong,        \* texts that do not fit their field
    Cut,            \* a text whose end was lost
    Networks,       \* pairs of a HaLow SSID and its passphrase
    Reachable,      \* those in range
    Countries,      \* codes in the regulatory database
    ApPasswords,    \* passwords that esp_wifi_set_config accepts (8 or more)
    MaxFaults,      \* bound: calls that fail
    MaxResets,      \* bound: resets other than those of a failed assertion
    MaxReconnects,  \* bound: reconnections after a start
    MaxParts        \* bound: requests received in part

\* The fields in the order of settings_save, and in the order of the form.
FieldOrder == <<"h_ssid", "h_pass", "ap_ssid", "ap_pass", "country", "buffer", "lang">>
FormOrder == <<"lang", "h_ssid", "h_pass", "ap_ssid", "ap_pass", "country", "buffer">>
Fields == {FieldOrder[i] : i \in 1 .. Len(FieldOrder)}
Numbers == {"buffer", "lang"}

\* BUFFER_PRESET_SMALL .. BUFFER_PRESET_LARGE and LANG_EN .. LANG_ZH.
InRange(k, v) == k \in Numbers => v \in 0 .. 2

ASSUME BridgeAssumption ==
    /\ Default = [k \in Fields |-> Default[k]]
    /\ \A k \in Fields : Default[k] # Absent /\ InRange(k, Default[k])
    /\ \A f \in Forms : DOMAIN f = Fields /\ \A k \in Fields : f[k] # Absent
    /\ Cut # Absent /\ Cut # Empty
    /\ Reachable \subseteq Networks
    /\ MaxFaults \in Nat /\ MaxResets \in Nat /\ MaxReconnects \in Nat
    /\ MaxParts \in Nat

VARIABLES
    flash,      \* the namespace "bridge" of NVS
    boot,       \* place of app_main
    sta,        \* credentials that the station was enabled with
    httpd,      \* the web server: "down", "idle", "saving"
    save,       \* the request in progress, and what is left to write
    reconnect,  \* load_mmwlan_sta_args of do_halow_reconnect
    faults, resets, reconnects, parts,
    \* history: no fault since the last complete form; the last answer; the
    \* credentials were read while a save was in progress, or the read of one of
    \* them alone failed
    intact, told, torn

mainVars == <<boot, sta>>
webVars == <<httpd, save, intact, told>>
reconnectVars == <<reconnect, reconnects, torn>>
bridgeVars == <<flash, mainVars, webVars, reconnectVars, faults, resets, parts>>

NoSave == [next |-> 0]
NoCredentials == <<Empty, Empty>>
Credentials(s) == <<s["h_ssid"], s["h_pass"]>>

BridgeInit ==
    /\ flash = [k \in Fields |-> Absent]
    /\ boot = "settings"
    /\ sta = NoCredentials
    /\ httpd = "down" /\ save = NoSave
    /\ reconnect = Empty /\ reconnects = 0
    /\ faults = 0 /\ resets = 0 /\ parts = 0
    /\ intact = TRUE /\ told = "nothing" /\ torn = FALSE

Fault == faults < MaxFaults /\ faults' = faults + 1
OrFault(ok) == (ok /\ UNCHANGED faults) \/ (~ok /\ Fault)

-----------------------------------------------------------------------------
(* settings.c *)

\* settings_load: a missing key, or a number out of range, gives the default.
Loaded ==
    [k \in Fields |-> IF flash[k] # Absent /\ InRange(k, flash[k]) THEN flash[k]
                                                                   ELSE Default[k]]

\* The result of each nvs_get is ignored: the keys in K, which could not be read,
\* have their defaults.
Lapsed(K) == [k \in Fields |-> IF k \in K THEN Default[k] ELSE Loaded[k]]

\* The keys that settings_load may fail to read: all of them when nvs_open fails,
\* otherwise one for each failed nvs_get.
Unread(K) ==
    \/ K = Fields /\ Fault
    \/ /\ faults + Cardinality(K) <= MaxFaults
       /\ faults' = faults + Cardinality(K)

\* One of the two credentials is read and the other is not.
Split(K) == ("h_ssid" \in K) # ("h_pass" \in K)

\* Everything but flash is lost in a reset, and app_main runs again.
Restart ==
    /\ boot' = "settings"
    /\ sta' = NoCredentials
    /\ httpd' = "down" /\ save' = NoSave /\ told' = "nothing"
    /\ intact' = (intact /\ httpd # "saving")
    /\ reconnect' = Empty /\ reconnects' = 0 /\ torn' = FALSE

\* Power fails, or a watchdog or an assertion elsewhere resets the device.
Reset ==
    /\ resets < MaxResets
    /\ resets' = resets + 1
    /\ Restart
    /\ UNCHANGED <<flash, faults, parts>>

-----------------------------------------------------------------------------
(* app_main *)

\* settings_init: a partition that is full, or of a newer version, is erased.
SettingsInit ==
    /\ boot = "settings"
    /\ boot' = "channels"
    /\ \/ UNCHANGED <<flash, intact, faults>>
       \/ Fault /\ flash' = [k \in Fields |-> Absent] /\ intact' = FALSE
    /\ UNCHANGED <<sta, httpd, save, told, reconnectVars, resets, parts>>

AppWlanInit_NoDefault ==
    /\ boot = "channels"
    /\ \/ /\ flash["country"] \in Countries
          /\ boot' = "station"
          /\ UNCHANGED <<sta, webVars, reconnectVars>>
       \/ flash["country"] \notin Countries /\ Restart
    /\ UNCHANGED <<flash, faults, resets, parts>>

\* app_wlan_init: load_channel_list asserts that the country is known.
AppWlanInit ==
    /\ boot = "channels"
    /\ \E K \in SUBSET Fields :
         /\ Unread(K)
         /\ \/ /\ Lapsed(K)["country"] \in Countries
               /\ boot' = "station"
               /\ UNCHANGED <<sta, webVars, reconnectVars>>
            \/ Lapsed(K)["country"] \notin Countries /\ Restart
    /\ UNCHANGED <<flash, resets, parts>>

AppWlanStart_DefaultPass ==
    /\ boot = "station"
    /\ sta' = <<Loaded["h_ssid"], Default["h_pass"]>>
    /\ boot' = "link" /\ torn' = FALSE
    /\ UNCHANGED <<flash, webVars, reconnect, reconnects, faults, resets, parts>>

\* app_wlan_start: load_mmwlan_sta_args and mmwlan_sta_enable.
AppWlanStart ==
    /\ boot = "station"
    /\ \E K \in SUBSET Fields :
         Unread(K) /\ sta' = Credentials(Lapsed(K)) /\ torn' = Split(K)
    /\ boot' = "link"
    /\ UNCHANGED <<flash, webVars, reconnect, reconnects, resets, parts>>

\* The link comes up, with an address, when the credentials are those of a
\* network in range: app_wlan_start returns.
LinkUp ==
    /\ boot = "link"
    /\ sta \in Reachable
    /\ boot' = "ap"
    /\ UNCHANGED <<flash, sta, webVars, reconnectVars, faults, resets, parts>>

\* start_2ghz_ap: it gives up without an interface; a failed ESP_ERROR_CHECK, for
\* one the check of the password, resets the device.  Its own nvs_flash_init finds
\* NVS initialised by settings_init and does nothing; where that failed, the check
\* of it is one of the failed calls.
Start2GhzAp ==
    /\ boot = "ap"
    /\ \/ /\ Fault
          /\ boot' = "done"
          /\ UNCHANGED <<sta, webVars, reconnectVars>>
       \/ Fault /\ Restart
       \/ \E K \in SUBSET Fields :
            /\ Unread(K)
            /\ \/ /\ Lapsed(K)["ap_pass"] \in ApPasswords
                  /\ boot' = "web"
                  /\ UNCHANGED <<sta, webVars, reconnectVars>>
               \/ Lapsed(K)["ap_pass"] \notin ApPasswords /\ Restart
    /\ UNCHANGED <<flash, resets, parts>>

\* start_web_config_server, whose failure is ignored.
StartWebConfigServer ==
    /\ boot = "web"
    /\ boot' = "done"
    /\ \E ok \in BOOLEAN : OrFault(ok) /\ httpd' = IF ok THEN "idle" ELSE "down"
    /\ UNCHANGED <<flash, sta, save, intact, told, reconnectVars, resets, parts>>

-----------------------------------------------------------------------------
(* web_config.c *)

\* What arrives of a form: all of it, or a beginning that may end in a text.
Received(form) ==
    {form} \cup
    UNION {{[k \in Fields |-> IF \E i \in 1 .. n : FormOrder[i] = k THEN form[k] ELSE Empty],
            [k \in Fields |-> IF k = FormOrder[n + 1] /\ k \notin Numbers /\ form[k] # Empty
                              THEN Cut
                              ELSE IF \E i \in 1 .. n : FormOrder[i] = k THEN form[k] ELSE Empty]}
           : n \in 0 .. Len(FormOrder) - 1}

\* strncpy into the buffer of the field.
Fit(k, v) == IF k \notin Numbers /\ v \in TooLong THEN Cut ELSE v

\* parse_form_field for each field: an empty one keeps the value that was loaded.
Overlay(s, form) ==
    [k \in Fields |-> IF form[k] # Empty /\ InRange(k, form[k]) THEN Fit(k, form[k])
                                                               ELSE s[k]]

SavePost_NotLoaded(form) ==
    /\ httpd = "idle"
    /\ httpd' = "saving"
    /\ save' = [next |-> 1, settings |-> Overlay(Default, form), form |-> form,
                before |-> Loaded, clean |-> TRUE]
    /\ UNCHANGED <<flash, mainVars, intact, told, reconnectVars, faults, resets, parts>>

\* save_post_handler up to the first write: the body is received, with a single
\* httpd_req_recv that may return only a part of it, the settings are loaded and
\* the fields of the form put over them.
SavePost(form) ==
    /\ httpd = "idle"
    /\ httpd' = "saving"
    /\ \E body \in Received(form), K \in SUBSET Fields :
         /\ Unread(K)
         /\ parts' = IF body = form THEN parts ELSE parts + 1
         /\ parts' <= MaxParts
         /\ save' = [next |-> 1, settings |-> Overlay(Lapsed(K), body), form |-> form,
                     before |-> Loaded,
                     clean |-> Overlay(Lapsed(K), body) = Overlay(Loaded, form)]
    /\ torn' = (torn \/ reconnect # Empty)
    /\ UNCHANGED <<flash, mainVars, intact, told, reconnect, reconnects, resets>>

\* A body that is too long, no memory, nothing received, or no handle for
\* writing: nothing has been changed.
SaveRefused ==
    /\ httpd = "idle"
    /\ told' = "refused"
    /\ UNCHANGED <<flash, mainVars, httpd, save, intact, reconnectVars, faults, resets, parts>>

\* One nvs_set_str or nvs_set_u8; its result is ignored.
SetField ==
    /\ httpd = "saving"
    /\ save.next <= Len(FieldOrder)
    /\ \E ok \in BOOLEAN :
         /\ OrFault(ok)
         /\ LET k == FieldOrder[save.next] IN
            flash' = IF ok THEN [flash EXCEPT ![k] = save.settings[k]] ELSE flash
         /\ save' = [save EXCEPT !.next = @ + 1, !.clean = @ /\ ok]
    /\ UNCHANGED <<mainVars, httpd, intact, told, reconnectVars, resets, parts>>

Complete(form) == \A k \in Fields : form[k] # Empty /\ InRange(k, form[k])

\* nvs_commit and the answer.
SaveCommit ==
    /\ httpd = "saving"
    /\ save.next > Len(FieldOrder)
    /\ httpd' = "idle"
    /\ \E ok \in BOOLEAN :
         /\ OrFault(ok)
         /\ told' = IF ok THEN "saved" ELSE "refused"
         /\ intact' = (ok /\ save.clean /\ (intact \/ Complete(save.form)))
    /\ save' = NoSave
    /\ UNCHANGED <<flash, mainVars, reconnectVars, resets, parts>>

\* reboot_handler; the page itself (get_handler) changes nothing.
RebootHandler ==
    /\ httpd = "idle"
    /\ resets < MaxResets
    /\ resets' = resets + 1
    /\ Restart
    /\ UNCHANGED <<flash, faults, parts>>

-----------------------------------------------------------------------------
(* do_halow_reconnect, on the timer task: load_mmwlan_sta_args *)

ReconnectSsid_Remembered ==
    /\ boot \in {"ap", "web", "done"}
    /\ reconnect = Empty
    /\ reconnects < MaxReconnects
    /\ reconnects' = reconnects + 1
    /\ reconnect' = sta[1]
    /\ torn' = (httpd = "saving")
    /\ UNCHANGED <<flash, mainVars, webVars, faults, resets, parts>>

\* The first get of settings_load in a reconnection, which may fail by itself, or
\* nvs_open fails and the defaults are used ...
ReconnectSsid ==
    /\ boot \in {"ap", "web", "done"}
    /\ reconnect = Empty
    /\ reconnects < MaxReconnects
    /\ reconnects' = reconnects + 1
    /\ \/ /\ \E ok \in BOOLEAN :
               /\ OrFault(ok)
               /\ reconnect' = IF ok THEN Loaded["h_ssid"] ELSE Default["h_ssid"]
               /\ torn' = (httpd = "saving" \/ ~ok)
          /\ UNCHANGED sta
       \/ /\ Fault
          /\ sta' = Credentials(Default)
          /\ torn' = (httpd = "saving")
          /\ UNCHANGED reconnect
    /\ UNCHANGED <<flash, boot, webVars, resets, parts>>

\* ... and the second; then the station is enabled with them.
ReconnectPass ==
    /\ reconnect # Empty
    /\ \E ok \in BOOLEAN :
         /\ OrFault(ok)
         /\ sta' = <<reconnect, IF ok THEN Loaded["h_pass"] ELSE Default["h_pass"]>>
         /\ torn' = (torn \/ httpd = "saving" \/ ~ok)
    /\ reconnect' = Empty
    /\ UNCHANGED <<flash, boot, webVars, reconnects, resets, parts>>

-----------------------------------------------------------------------------

BootStep ==
    \/ SettingsInit \/ AppWlanInit \/ AppWlanStart \/ LinkUp
    \/ Start2GhzAp \/ StartWebConfigServer

SaveStep == SetField \/ SaveCommit

BridgeNext ==
    \/ BootStep
    \/ \E form \in Forms : SavePost(form)
    \/ SaveRefused
    \/ SaveStep
    \/ RebootHandler
    \/ ReconnectSsid
    \/ ReconnectPass
    \/ Reset

BridgeSpec == BridgeInit /\ [][BridgeNext]_bridgeVars

\* The main task and the web server's run; a network in range lets the station
\* in.
BridgeFairSpec ==
    /\ BridgeSpec
    /\ WF_bridgeVars(BootStep)
    /\ WF_bridgeVars(SaveStep)

-----------------------------------------------------------------------------
(* Properties *)

BridgeTypeOK ==
    /\ boot \in {"settings", "channels", "station", "link", "ap", "web", "done"}
    /\ httpd \in {"down", "idle", "saving"}
    /\ httpd = "saving" <=> save.next \in 1 .. Len(FieldOrder) + 1
    /\ told \in {"nothing", "saved", "refused"}
    /\ intact \in BOOLEAN /\ torn \in BOOLEAN

\* Settings with which the device can be reached: the station connects, and the
\* access point, and so the web page, starts.
Usable(s) ==
    /\ Credentials(s) \in Reachable
    /\ s["country"] \in Countries
    /\ s["ap_pass"] \in ApPasswords

\* The settings of the next start, with a save that is not finished left out.
Stored == IF httpd = "saving" THEN save.before ELSE Loaded

Promise == INSTANCE SettingsStore WITH stored <- Stored

\* save_post_handler and settings_save do what the web page promises: although
\* flash is written in seven steps, a form that is reported as saved has
\* replaced just what it fills in, cut to the size of the fields, and one that is
\* refused has changed nothing, until a call fails, a form is received in part or
\* a save is interrupted; and a complete form then sets everything right.
KeepsPromise == Promise!StoreSpec

\* The station is enabled with an SSID and the passphrase of another network, at a
\* start or in a reconnection, only in one of three ways: what is stored was
\* damaged (by a failed call in a save, a form received in part or a save that was
\* interrupted) and no complete form has been saved since; a save was in progress
\* while the two were read; or the nvs_get of one of them alone has failed.
CredentialsMatch ==
    [][sta' # sta /\ sta' # NoCredentials /\ intact /\ ~torn'
            => sta' \in Networks]_bridgeVars

\* The device restarts by itself, without a failed call, a reset or a request to
\* reboot, only because of what is stored: the assertion of load_channel_list and
\* the check of the password never fail on usable settings, whatever saves, resets
\* and erasures came before.
RestartsExplained ==
    [][boot # "settings" /\ boot' = "settings" /\ UNCHANGED <<faults, resets>>
            => ~Usable(Stored)]_bridgeVars

\* What is stored decides alone: whatever happened before, once no call fails
\* and no reset comes any more, a start with usable settings leads to a web page
\* through which they can be changed.  (With others the device may be out of
\* reach for ever.)
WebPageComesUp ==
    (boot = "settings" /\ Usable(Stored) /\ faults = MaxFaults /\ resets = MaxResets)
        ~> httpd # "down"

=============================================================================
