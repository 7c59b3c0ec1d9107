---------------------------- MODULE BridgeProofs ----------------------------
(***************************************************************************)
(* Proofs about the settings of the bridge, for any forms, any number of   *)
(* faults and any number of resets.                                        *)
(***************************************************************************)
EXTENDS Bridge, FiniteSetTheorems, TLAPS

\* The fields of a request in progress.
SaveShape ==
    /\ save = [next |-> save.next, settings |-> save.settings, form |-> save.form,
               before |-> save.before, clean |-> save.clean]
    /\ save.next \in 1 .. 8
    /\ save.form \in Forms
    /\ save.clean \in BOOLEAN

\* Half-way through a save that no fault has touched, the fields before the next
\* one are the new ones and the others are still the old ones.
SaveProgress ==
    save.clean =>
        /\ save.settings = Overlay(save.before, save.form)
        /\ \A k \in Fields : /\ save.settings[k] # Absent
                             /\ InRange(k, save.settings[k])
        /\ \A i \in 1 .. 7 :
              Loaded[FieldOrder[i]] = IF i < save.next THEN save.settings[FieldOrder[i]]
                                                       ELSE save.before[FieldOrder[i]]

\* The inductive invariant.
BridgeInv ==
    /\ BridgeTypeOK
    /\ DOMAIN flash = Fields
    /\ flash = [k \in Fields |-> flash[k]]
    /\ boot # "done" => httpd = "down"
    /\ httpd = "saving" =>
          /\ SaveShape /\ SaveProgress
          /\ save.before = [k \in Fields |-> save.before[k]]

(***************************************************************************)
(* The seven fields, each written once by settings_save.                   *)
(***************************************************************************)
LEMMA FieldFacts ==
    /\ Len(FieldOrder) = 7
    /\ Fields = {FieldOrder[i] : i \in 1 .. 7}
    /\ \A i \in 1 .. 7, j \in 1 .. 7 : FieldOrder[i] = FieldOrder[j] => i = j
<1>1. Len(FieldOrder) = 7
  BY DEF FieldOrder
<1>2. \A i \in 1 .. 7, j \in 1 .. 7 : FieldOrder[i] = FieldOrder[j] => i = j
  BY DEF FieldOrder
<1>3. QED
  BY <1>1, <1>2 DEF Fields

(***************************************************************************)
(* Without a failed call settings_load reads every key.                    *)
(***************************************************************************)
LEMMA UnreadKeys ==
    ASSUME faults \in Nat, NEW K \in SUBSET Fields, Unread(K)
    PROVE  /\ faults' \in Nat /\ faults' >= faults
           /\ faults' = faults => K = {}
<1>1. IsFiniteSet(Fields)
  <2>1. FieldOrder \in Surjection(1 .. 7, Fields)
    BY FieldFacts DEF Surjection, FieldOrder
  <2>2. IsFiniteSet(1 .. 7)
    <3>1. 1 \in Int /\ 7 \in Int
      OBVIOUS
    <3>2. QED
      BY <3>1, FS_Interval, Zenon
  <2>3. QED
    BY <2>1, <2>2, FS_Surjection
<1>2. IsFiniteSet(K)
  BY <1>1, FS_Subset
<1>3. Cardinality(K) \in Nat /\ (Cardinality(K) = 0 <=> K = {})
  BY <1>2, FS_CardinalityType, FS_EmptySet
<1>4. QED
  BY <1>3 DEF Unread, Fault

(***************************************************************************)
(* What settings_load gives when every key, or none, could be read.        *)
(***************************************************************************)
LEMMA LapsedFacts ==
    ASSUME NEW K \in SUBSET Fields
    PROVE  /\ K = {} => Lapsed(K) = Loaded
           /\ ~Split(K) => Credentials(Lapsed(K)) \in {Credentials(Loaded), Credentials(Default)}
<1>1. "h_ssid" \in Fields /\ "h_pass" \in Fields
  BY DEF Fields, FieldOrder
<1>2. K = {} => Lapsed(K) = Loaded
  BY DEF Lapsed, Loaded
<1>3. ~Split(K) => Credentials(Lapsed(K)) \in {Credentials(Loaded), Credentials(Default)}
  BY <1>1 DEF Split, Lapsed, Credentials
<1>4. QED
  BY <1>2, <1>3

(***************************************************************************)
(* settings_load never gives a value that is missing or out of range.      *)
(***************************************************************************)
LEMMA LoadedOK ==
    /\ Loaded = [k \in Fields |-> Loaded[k]]
    /\ \A k \in Fields : Loaded[k] # Absent /\ InRange(k, Loaded[k])
  BY BridgeAssumption DEF Loaded

(***************************************************************************)
(* Nor does a form put over such settings.                                 *)
(***************************************************************************)
LEMMA OverlayOK ==
    ASSUME NEW s, NEW form \in Forms,
           \A k \in Fields : s[k] # Absent /\ InRange(k, s[k])
    PROVE  \A k \in Fields : /\ Overlay(s, form)[k] # Absent
                             /\ InRange(k, Overlay(s, form)[k])
  BY BridgeAssumption DEF Overlay, Fit, InRange

(***************************************************************************)
(* A restart forgets the request in progress and nothing that is stored.   *)
(***************************************************************************)
LEMMA RestartStep ==
    ASSUME BridgeInv, Restart, flash' = flash
    PROVE  BridgeInv'
<1>1. boot' = "settings" /\ httpd' = "down" /\ save'.next = 0 /\ told' = "nothing"
  BY DEF Restart, NoSave
<1>2. intact' \in BOOLEAN /\ torn' \in BOOLEAN
  BY DEF Restart
<1>3. BridgeTypeOK'
  BY <1>1, <1>2, FieldFacts DEF BridgeTypeOK
<1>4. QED
  BY <1>1, <1>3 DEF BridgeInv

(***************************************************************************)
(* One write of settings_save moves the border between new and old fields. *)
(***************************************************************************)
LEMMA SetFieldStep ==
    ASSUME BridgeInv, SetField
    PROVE  BridgeInv'
<1>1. PICK ok \in BOOLEAN :
        /\ flash' = IF ok THEN [flash EXCEPT ![FieldOrder[save.next]] =
                                   save.settings[FieldOrder[save.next]]]
                          ELSE flash
        /\ save' = [save EXCEPT !.next = @ + 1, !.clean = @ /\ ok]
  BY DEF SetField
<1>2. /\ httpd = "saving" /\ save.next \in 1 .. 7 /\ SaveShape /\ SaveProgress
      /\ save.before = [k \in Fields |-> save.before[k]]
  BY FieldFacts DEF SetField, BridgeInv, SaveShape
<1>3. /\ httpd' = httpd /\ boot' = boot /\ told' = told /\ intact' = intact
      /\ torn' = torn
  BY DEF SetField, mainVars, reconnectVars
<1>4. save' = [next |-> save.next + 1, settings |-> save.settings, form |-> save.form,
               before |-> save.before, clean |-> save.clean /\ ok]
  BY <1>1, <1>2 DEF SaveShape
<1>5. /\ save'.next = save.next + 1 /\ save'.settings = save.settings
      /\ save'.form = save.form /\ save'.before = save.before
      /\ save'.clean = (save.clean /\ ok)
  BY <1>4
<1>6. SaveShape'
  BY <1>2, <1>4, <1>5 DEF SaveShape
<1>7. BridgeTypeOK'
  BY <1>2, <1>3, <1>5, FieldFacts DEF BridgeInv, BridgeTypeOK
<1>8. DOMAIN flash' = Fields /\ flash' = [k \in Fields |-> flash'[k]]
  BY <1>1 DEF BridgeInv
<1>9. SaveProgress'
  <2> SUFFICES ASSUME save'.clean PROVE SaveProgress'
    BY DEF SaveProgress
  <2>1. save.clean /\ ok
    BY <1>5
  <2> DEFINE K == FieldOrder[save.next]
             v == save.settings[K]
  <2>2. K \in Fields /\ v # Absent /\ InRange(K, v)
    BY <1>2, <2>1, FieldFacts DEF SaveProgress
  <2>3. flash' = [flash EXCEPT ![K] = v]
    BY <1>1, <2>1
  <2>4. Loaded'[K] = v
    BY <2>2, <2>3 DEF Loaded, BridgeInv
  <2>5. \A k \in Fields : k # K => Loaded'[k] = Loaded[k]
    BY <2>3 DEF Loaded, BridgeInv
  <2>6. ASSUME NEW i \in 1 .. 7
        PROVE  Loaded'[FieldOrder[i]] =
                  IF i < save'.next THEN save'.settings[FieldOrder[i]]
                                    ELSE save'.before[FieldOrder[i]]
    <3>1. CASE i = save.next
      BY <1>2, <1>5, <2>4, <3>1
    <3>2. CASE i # save.next
      <4>1. FieldOrder[i] \in Fields /\ FieldOrder[i] # K
        BY <1>2, <3>2, FieldFacts
      <4>2. Loaded'[FieldOrder[i]] = Loaded[FieldOrder[i]]
        BY <2>5, <4>1
      <4>3. QED
        BY <1>2, <1>5, <2>1, <3>2, <4>2 DEF SaveProgress
    <3>3. QED
      BY <3>1, <3>2
  <2>7. QED
    BY <1>2, <1>5, <2>1, <2>6 DEF SaveProgress, Overlay
<1>10. QED
  BY <1>2, <1>3, <1>5, <1>6, <1>7, <1>8, <1>9 DEF BridgeInv

(***************************************************************************)
(* A form that loses nothing in the reception or in what it is put over    *)
(* begins a save of just what it fills in.                                 *)
(***************************************************************************)
LEMMA SavePostStep ==
    ASSUME BridgeInv, NEW form \in Forms, SavePost(form)
    PROVE  BridgeInv'
<1>1. \E new : save' = [next |-> 1, settings |-> new, form |-> form,
                         before |-> Loaded, clean |-> new = Overlay(Loaded, form)]
  BY DEF SavePost
<1> PICK new : save' = [next |-> 1, settings |-> new, form |-> form,
                        before |-> Loaded, clean |-> new = Overlay(Loaded, form)]
  BY <1>1
<1>2. /\ save'.next = 1 /\ save'.settings = new /\ save'.form = form
      /\ save'.before = Loaded /\ save'.clean = (new = Overlay(Loaded, form))
  OBVIOUS
<1>3. /\ httpd' = "saving" /\ httpd = "idle" /\ boot' = boot /\ told' = told
      /\ intact' = intact /\ flash' = flash /\ torn' \in BOOLEAN
  BY DEF SavePost, mainVars, BridgeInv, BridgeTypeOK
<1>4. Loaded' = Loaded
  BY <1>3 DEF Loaded
<1>5. BridgeTypeOK'
  BY <1>2, <1>3, FieldFacts DEF BridgeInv, BridgeTypeOK
<1>6. SaveShape'
  BY <1>2 DEF SaveShape
<1>7. SaveProgress'
  <2> SUFFICES ASSUME save'.clean PROVE SaveProgress'
    BY DEF SaveProgress
  <2>2. save'.settings = Overlay(save'.before, save'.form)
    BY <1>2
  <2>3. \A k \in Fields : /\ save'.settings[k] # Absent
                          /\ InRange(k, save'.settings[k])
    BY <1>2, <2>2, LoadedOK, OverlayOK
  <2>4. QED
    BY <1>2, <1>4, <2>2, <2>3 DEF SaveProgress, Overlay
<1>8. QED
  BY <1>2, <1>3, <1>5, <1>6, <1>7, LoadedOK DEF BridgeInv

(***************************************************************************)
(* BridgeInv is inductive.                                                 *)
(***************************************************************************)
THEOREM BridgeInvariant == BridgeSpec => []BridgeInv
<1>1. BridgeInit => BridgeInv
  <2> SUFFICES ASSUME BridgeInit PROVE BridgeInv
    OBVIOUS
  <2>1. boot = "settings" /\ httpd = "down" /\ save.next = 0 /\ told = "nothing"
    BY DEF BridgeInit, NoSave
  <2>2. intact \in BOOLEAN /\ torn \in BOOLEAN
    BY DEF BridgeInit
  <2>3. BridgeTypeOK
    BY <2>1, <2>2, FieldFacts DEF BridgeTypeOK
  <2>4. QED
    BY <2>1, <2>3 DEF BridgeInit, BridgeInv
<1>2. BridgeInv /\ [BridgeNext]_bridgeVars => BridgeInv'
  <2> SUFFICES ASSUME BridgeInv, [BridgeNext]_bridgeVars PROVE BridgeInv'
    OBVIOUS
  <2>0. ASSUME flash' = flash, httpd' = httpd, save' = save, BridgeTypeOK',
               boot' # "done" => httpd = "down"
        PROVE  BridgeInv'
    <3>1. Loaded' = Loaded
      BY <2>0 DEF Loaded
    <3>2. QED
      BY <2>0, <3>1 DEF BridgeInv, SaveShape, SaveProgress
  <2>1. CASE SettingsInit
    <3>1. /\ boot' = "channels" /\ httpd' = httpd /\ httpd = "down" /\ save' = save
          /\ told' = told
      BY <2>1 DEF SettingsInit, BridgeInv
    <3>2. intact' \in BOOLEAN /\ torn' \in BOOLEAN
      BY <2>1 DEF SettingsInit, BridgeInv, BridgeTypeOK, reconnectVars
    <3>3. BridgeTypeOK'
      BY <3>1, <3>2 DEF BridgeInv, BridgeTypeOK
    <3>4. DOMAIN flash' = Fields /\ flash' = [k \in Fields |-> flash'[k]]
      BY <2>1 DEF SettingsInit, BridgeInv
    <3>5. QED
      BY <3>1, <3>3, <3>4 DEF BridgeInv
  <2>2. ASSUME /\ flash' = flash /\ httpd' = httpd /\ save' = save
               /\ intact' = intact /\ told' = told
               /\ torn' \in BOOLEAN
               /\ boot' \in {"channels", "station", "link", "ap", "web", "done"}
               /\ boot' # "done" => httpd = "down"
        PROVE  BridgeInv'
    <3>1. BridgeTypeOK'
      BY <2>2 DEF BridgeInv, BridgeTypeOK
    <3>2. QED
      BY <2>0, <2>2, <3>1
  <2>3. CASE AppWlanInit
    <3>1. CASE Restart
      BY <2>3, <3>1, RestartStep DEF AppWlanInit
    <3>2. CASE ~Restart
      BY <2>2, <2>3, <3>2
         DEF AppWlanInit, BridgeInv, BridgeTypeOK, webVars, reconnectVars
    <3>3. QED
      BY <3>1, <3>2
  <2>4. CASE AppWlanStart \/ LinkUp
    <3>1. torn' \in BOOLEAN
      BY <2>4 DEF AppWlanStart, LinkUp, Split, BridgeInv, BridgeTypeOK, reconnectVars
    <3>2. QED
      BY <2>2, <2>4, <3>1 DEF AppWlanStart, LinkUp, BridgeInv, webVars
  <2>5. CASE Start2GhzAp
    <3>1. CASE Restart
      BY <2>5, <3>1, RestartStep DEF Start2GhzAp
    <3>2. CASE ~Restart
      BY <2>2, <2>5, <3>2
         DEF Start2GhzAp, BridgeInv, BridgeTypeOK, webVars, reconnectVars
    <3>3. QED
      BY <3>1, <3>2
  <2>6. CASE StartWebConfigServer
    <3>1. /\ boot' = "done" /\ httpd' \in {"idle", "down"} /\ httpd = "down"
          /\ save' = save /\ told' = told /\ intact' = intact /\ flash' = flash
          /\ torn' = torn
      BY <2>6 DEF StartWebConfigServer, BridgeInv, reconnectVars
    <3>2. BridgeTypeOK'
      BY <3>1 DEF BridgeInv, BridgeTypeOK
    <3>3. QED
      BY <3>1, <3>2 DEF BridgeInv
  <2>7. ASSUME NEW form \in Forms, SavePost(form)
        PROVE  BridgeInv'
    BY <2>7, SavePostStep
  <2>8. CASE SaveRefused
    <3>1. BridgeTypeOK'
      BY <2>8 DEF SaveRefused, BridgeInv, BridgeTypeOK, mainVars, reconnectVars
    <3>2. boot' = boot
      BY <2>8 DEF SaveRefused, mainVars
    <3>3. QED
      BY <2>0, <2>8, <3>1, <3>2 DEF SaveRefused, BridgeInv
  <2>9. CASE SetField
    BY <2>9, SetFieldStep
  <2>10. CASE SaveCommit
    <3>1. /\ httpd' = "idle" /\ save' = NoSave /\ told' \in {"saved", "refused"}
          /\ flash' = flash /\ boot' = boot /\ torn' = torn
          /\ httpd = "saving"
      BY <2>10 DEF SaveCommit, mainVars, reconnectVars
    <3>2. intact' \in BOOLEAN
      BY <2>10 DEF SaveCommit
    <3>3. BridgeTypeOK'
      BY <3>1, <3>2 DEF NoSave, BridgeInv, BridgeTypeOK
    <3>4. QED
      BY <3>1, <3>3 DEF BridgeInv
  <2>11. CASE RebootHandler \/ Reset
    BY <2>11, RestartStep DEF RebootHandler, Reset
  <2>12. CASE ReconnectSsid \/ ReconnectPass
    <3>1. /\ flash' = flash /\ boot' = boot
          /\ httpd' = httpd /\ save' = save /\ intact' = intact /\ told' = told
      BY <2>12 DEF ReconnectSsid, ReconnectPass, webVars
    <3>2. torn' \in BOOLEAN
      BY <2>12 DEF ReconnectSsid, ReconnectPass, BridgeInv, BridgeTypeOK
    <3>3. BridgeTypeOK'
      BY <3>1, <3>2 DEF BridgeInv, BridgeTypeOK
    <3>4. QED
      BY <2>0, <3>1, <3>3 DEF BridgeInv
  <2>13. CASE UNCHANGED bridgeVars
    <3>1. BridgeTypeOK'
      BY <2>13 DEF bridgeVars, mainVars, webVars, reconnectVars, BridgeInv, BridgeTypeOK
    <3>2. QED
      BY <2>0, <2>13, <3>1 DEF bridgeVars, mainVars, webVars, BridgeInv
  <2>14. QED
    BY <2>1, <2>3, <2>4, <2>5, <2>6, <2>7, <2>8, <2>9, <2>10, <2>11, <2>12, <2>13
       DEF BridgeNext, BootStep, SaveStep
<1>3. QED
  BY <1>1, <1>2, PTL DEF BridgeSpec

(***************************************************************************)
(* The variables keep their types, and the web server has a request in     *)
(* hand exactly while it saves.                                            *)
(***************************************************************************)
THEOREM BridgeTypeCorrect == BridgeSpec => []BridgeTypeOK
<1>1. BridgeInv => BridgeTypeOK
  BY DEF BridgeInv
<1>2. QED
  BY <1>1, BridgeInvariant, PTL

(***************************************************************************)
(* A restart keeps what is stored, or a save was interrupted.              *)
(***************************************************************************)
LEMMA RestartKeeps ==
    ASSUME BridgeInv, Restart, flash' = flash
    PROVE  Promise!StoreNext
<1>1. CASE httpd = "saving"
  <2>1. intact' = FALSE
    BY <1>1 DEF Restart
  <2>2. QED
    BY <2>1 DEF Promise!StoreNext, Promise!StoreFault
<1>2. CASE httpd # "saving"
  <2>1. Stored' = Stored /\ told' = "nothing"
    BY <1>2 DEF Restart, Stored, Loaded
  <2>2. intact' = intact
    BY <1>2 DEF Restart, BridgeInv, BridgeTypeOK
  <2>3. QED
    BY <2>1, <2>2 DEF Promise!StoreNext, Promise!Restarted
<1>3. QED
  BY <1>1, <1>2

(***************************************************************************)
(* The answer of a save: when nothing failed, all seven fields have been   *)
(* written, and what is stored is the old settings under the form.         *)
(***************************************************************************)
LEMMA CommitKeeps ==
    ASSUME BridgeInv, SaveCommit
    PROVE  Promise!StoreNext
<1>1. PICK ok \in BOOLEAN :
        /\ told' = IF ok THEN "saved" ELSE "refused"
        /\ intact' = (ok /\ save.clean /\ (intact \/ Complete(save.form)))
  BY DEF SaveCommit
<1>2. CASE ~(ok /\ save.clean)
  <2>1. intact' = FALSE
    BY <1>1, <1>2
  <2>2. QED
    BY <2>1 DEF Promise!StoreNext, Promise!StoreFault
<1>3. CASE ok /\ save.clean
  <2>1. /\ httpd = "saving" /\ httpd' = "idle" /\ flash' = flash
        /\ save.next = 8 /\ SaveShape /\ SaveProgress
        /\ save.before = [k \in Fields |-> save.before[k]]
    BY FieldFacts DEF SaveCommit, BridgeInv, SaveShape
  <2>2. Stored = save.before /\ Stored' = Loaded
    BY <2>1 DEF Stored, Loaded
  <2>3. \A i \in 1 .. 7 : Loaded[FieldOrder[i]] = save.settings[FieldOrder[i]]
    BY <1>3, <2>1 DEF SaveProgress
  <2>4. \A k \in Fields : Loaded[k] = save.settings[k]
    BY <2>3, FieldFacts
  <2>5. save.settings = Overlay(save.before, save.form)
    BY <1>3, <2>1 DEF SaveProgress
  <2>6. Loaded = Overlay(save.before, save.form)
    BY <2>4, <2>5, LoadedOK DEF Overlay
  <2>7. Stored' = Promise!Overlay(Stored, save.form)
    BY <2>2, <2>6 DEF Overlay, Promise!Overlay
  <2>8. told' = "saved"
    BY <1>1, <1>3
  <2>9. intact' = (intact \/ Promise!Complete(save.form))
    BY <1>1, <1>3 DEF Complete, Promise!Complete
  <2>10. Promise!Saved(save.form) /\ save.form \in Forms
    BY <2>1, <2>7, <2>8, <2>9 DEF Promise!Saved, SaveShape
  <2>11. QED
    BY <2>10 DEF Promise!StoreNext
<1>4. QED
  BY <1>2, <1>3

(***************************************************************************)
(* Every step of the bridge is a step that the promise allows, or changes  *)
(* nothing the promise is about.                                           *)
(***************************************************************************)
LEMMA PromiseStep ==
    ASSUME BridgeInv, [BridgeNext]_bridgeVars
    PROVE  Promise!StoreNext \/ UNCHANGED <<Stored, intact, told>>
<1>0. ASSUME flash' = flash, httpd' = httpd, save' = save, intact' = intact, told' = told
      PROVE  UNCHANGED <<Stored, intact, told>>
  BY <1>0 DEF Stored, Loaded
<1>1. CASE SettingsInit
  <2>1. CASE intact' = FALSE
    BY <2>1 DEF Promise!StoreNext, Promise!StoreFault
  <2>2. CASE flash' = flash /\ intact' = intact
    BY <1>0, <1>1, <2>2 DEF SettingsInit
  <2>3. QED
    BY <1>1, <2>1, <2>2 DEF SettingsInit
<1>2. CASE AppWlanInit \/ Start2GhzAp
  <2>1. CASE Restart
    BY <1>2, <2>1, RestartKeeps DEF AppWlanInit, Start2GhzAp
  <2>2. CASE ~Restart
    BY <1>0, <1>2, <2>2 DEF AppWlanInit, Start2GhzAp, webVars
  <2>3. QED
    BY <2>1, <2>2
<1>3. CASE AppWlanStart \/ LinkUp
  BY <1>0, <1>3 DEF AppWlanStart, LinkUp, webVars
<1>4. CASE StartWebConfigServer
  <2>1. /\ httpd # "saving" /\ httpd' # "saving" /\ flash' = flash
        /\ intact' = intact /\ told' = told
    BY <1>4 DEF StartWebConfigServer, BridgeInv
  <2>2. QED
    BY <2>1 DEF Stored, Loaded
<1>5. ASSUME NEW form \in Forms, SavePost(form)
      PROVE  UNCHANGED <<Stored, intact, told>>
  <2>1. /\ httpd = "idle" /\ httpd' = "saving" /\ intact' = intact /\ told' = told
        /\ save'.before = Loaded
    BY <1>5 DEF SavePost
  <2>2. QED
    BY <2>1 DEF Stored
<1>6. CASE SaveRefused
  <2>1. told' = "refused" /\ Stored' = Stored /\ intact' = intact
    BY <1>6 DEF SaveRefused, Stored, Loaded
  <2>2. QED
    BY <2>1 DEF Promise!StoreNext, Promise!Refused
<1>7. CASE SetField
  <2>1. /\ httpd = "saving" /\ httpd' = "saving" /\ intact' = intact /\ told' = told
        /\ SaveShape
    BY <1>7 DEF SetField, BridgeInv
  <2>2. save'.before = save.before
    BY <1>7, <2>1 DEF SetField, SaveShape
  <2>3. QED
    BY <2>1, <2>2 DEF Stored
<1>8. CASE SaveCommit
  BY <1>8, CommitKeeps
<1>9. CASE RebootHandler \/ Reset
  BY <1>9, RestartKeeps DEF RebootHandler, Reset
<1>10. CASE ReconnectSsid \/ ReconnectPass
  BY <1>0, <1>10 DEF ReconnectSsid, ReconnectPass, webVars
<1>11. CASE UNCHANGED bridgeVars
  BY <1>0, <1>11 DEF bridgeVars, webVars
<1>12. QED
  BY <1>1, <1>2, <1>3, <1>4, <1>5, <1>6, <1>7, <1>8, <1>9, <1>10, <1>11
     DEF BridgeNext, BootStep, SaveStep

(***************************************************************************)
(* The bridge implements the promise of its web page: seven separate       *)
(* writes appear as one save, refused requests change nothing, and only a  *)
(* failed call, a form received in part or an interrupted save suspends it.*)
(***************************************************************************)
THEOREM BridgeKeepsPromise == BridgeSpec => KeepsPromise
<1>1. BridgeInit => Promise!StoreInit
  BY BridgeAssumption DEF BridgeInit, Promise!StoreInit, Stored, Loaded
<1>2. BridgeInv /\ [BridgeNext]_bridgeVars => [Promise!StoreNext]_(Promise!storeVars)
  BY PromiseStep DEF Promise!storeVars
<1>3. QED
  BY <1>1, <1>2, BridgeInvariant, PTL DEF BridgeSpec, KeepsPromise, Promise!StoreSpec

-----------------------------------------------------------------------------
(* Credentials *)

\* Forms, and the factory settings, give an SSID together with its passphrase, and
\* they fit their fields.
PairedForms ==
    /\ Credentials(Default) \in Networks
    /\ \A f \in Forms :
          \/ f["h_ssid"] = Empty /\ f["h_pass"] = Empty
          \/ /\ f["h_ssid"] \notin TooLong \cup {Empty}
             /\ f["h_pass"] \notin TooLong \cup {Empty}
             /\ Credentials(f) \in Networks

\* What is stored is a pair, and a reconnection in progress, if no save has
\* overlapped it and its first read has not failed, holds the SSID of that pair.
PairInv ==
    /\ BridgeInv
    /\ intact => Credentials(Stored) \in Networks
    /\ boot \notin {"ap", "web", "done"} => reconnect = Empty
    /\ reconnect # Empty /\ ~torn =>
          httpd # "saving" /\ reconnect = Loaded["h_ssid"]

(***************************************************************************)
(* Whatever the promise allows to be stored is a pair again.               *)
(***************************************************************************)
LEMMA StoredPair ==
    ASSUME PairedForms, PairInv,
           Promise!StoreNext \/ UNCHANGED <<Stored, intact, told>>
    PROVE  intact' => Credentials(Stored') \in Networks
<1> SUFFICES ASSUME intact' PROVE Credentials(Stored') \in Networks
  OBVIOUS
<1>1. "h_ssid" \in Fields /\ "h_pass" \in Fields
  BY DEF Fields, FieldOrder
<1>2. CASE \E form \in Forms : Promise!Saved(form)
  <2>1. PICK form \in Forms : Promise!Saved(form)
    BY <1>2
  <2>2. /\ Stored'["h_ssid"] = IF form["h_ssid"] # Empty THEN form["h_ssid"] ELSE Stored["h_ssid"]
        /\ Stored'["h_pass"] = IF form["h_pass"] # Empty THEN form["h_pass"] ELSE Stored["h_pass"]
    BY <1>1, <2>1 DEF Promise!Saved, Promise!Overlay, InRange, Numbers, Fit, PairedForms
  <2>3. intact \/ (form["h_ssid"] # Empty /\ form["h_pass"] # Empty)
    BY <1>1, <2>1 DEF Promise!Saved, Promise!Complete
  <2>4. QED
    BY <2>2, <2>3 DEF PairedForms, PairInv, Credentials
<1>3. CASE Promise!Refused \/ Promise!Restarted \/ UNCHANGED <<Stored, intact, told>>
  BY <1>3 DEF Promise!Refused, Promise!Restarted, PairInv, Credentials
<1>4. QED
  BY <1>2, <1>3 DEF Promise!StoreNext, Promise!StoreFault

(***************************************************************************)
(* The station is enabled with an SSID and the passphrase that belongs to  *)
(* it, if users enter them in pairs that fit, nothing has damaged what is  *)
(* stored, no save overlaps the two reads, and the read of one of them     *)
(* does not fail alone.                                                    *)
(***************************************************************************)
THEOREM BridgeCredentials == PairedForms /\ BridgeSpec => CredentialsMatch
<1> SUFFICES ASSUME PairedForms PROVE BridgeSpec => CredentialsMatch
  OBVIOUS
<1>1. BridgeInit /\ BridgeInv => PairInv
  <2> SUFFICES ASSUME BridgeInit, BridgeInv PROVE PairInv
    OBVIOUS
  <2>1. Stored = Default
    BY BridgeAssumption DEF BridgeInit, Stored, Loaded
  <2>2. QED
    BY <2>1 DEF BridgeInit, PairInv, PairedForms
<1>2. PairInv /\ BridgeInv' /\ [BridgeNext]_bridgeVars => PairInv'
  <2> SUFFICES ASSUME PairInv, BridgeInv', [BridgeNext]_bridgeVars PROVE PairInv'
    OBVIOUS
  <2>1. intact' => Credentials(Stored') \in Networks
    <3>1. BridgeInv
      BY DEF PairInv
    <3>2. Promise!StoreNext \/ UNCHANGED <<Stored, intact, told>>
      BY <3>1, PromiseStep
    <3>3. QED
      BY <3>2, StoredPair
  <2> DEFINE Held == /\ boot \notin {"ap", "web", "done"} => reconnect = Empty
                     /\ reconnect # Empty /\ ~torn =>
                           httpd # "saving" /\ reconnect = Loaded["h_ssid"]
  <2> SUFFICES Held'
    BY <2>1 DEF PairInv
  <2>2. ASSUME Restart PROVE Held'
    BY <2>2 DEF Restart
  <2>3. ASSUME flash' = flash, UNCHANGED reconnectVars,
               httpd' = "saving" => httpd = "saving",
               boot \in {"ap", "web", "done"} => boot' \in {"ap", "web", "done"}
        PROVE  Held'
    <3>1. Loaded' = Loaded
      BY <2>3 DEF Loaded
    <3>2. QED
      BY <2>3, <3>1 DEF PairInv, reconnectVars
  <2>4. CASE SettingsInit
    BY <2>4 DEF SettingsInit, PairInv, reconnectVars
  <2>5. CASE AppWlanInit \/ Start2GhzAp
    <3>1. CASE ~Restart
      BY <2>3, <2>5, <3>1 DEF AppWlanInit, Start2GhzAp, webVars
    <3>2. QED
      BY <2>2, <3>1
  <2>6. CASE LinkUp \/ StartWebConfigServer
    BY <2>3, <2>6 DEF LinkUp, StartWebConfigServer, webVars
  <2>13. CASE AppWlanStart
    BY <2>13 DEF AppWlanStart, PairInv
  <2>7. ASSUME NEW form \in Forms, SavePost(form) PROVE Held'
    BY <2>7 DEF SavePost, mainVars, PairInv
  <2>8. CASE SaveRefused \/ SaveCommit
    BY <2>3, <2>8 DEF SaveRefused, SaveCommit, mainVars
  <2>9. CASE SetField
    BY <2>9 DEF SetField, mainVars, reconnectVars, PairInv
  <2>10. CASE RebootHandler \/ Reset
    BY <2>2, <2>10 DEF RebootHandler, Reset
  <2>11. CASE ReconnectSsid \/ ReconnectPass
    <3>1. flash' = flash /\ boot' = boot /\ httpd' = httpd /\ Loaded' = Loaded
      BY <2>11 DEF ReconnectSsid, ReconnectPass, webVars, Loaded
    <3>2. CASE reconnect' = Empty
      BY <3>2
    <3>3. CASE ReconnectSsid /\ reconnect' # Empty
      BY <3>1, <3>3 DEF ReconnectSsid
    <3>4. QED
      BY <2>11, <3>2, <3>3 DEF ReconnectPass
  <2>12. CASE UNCHANGED bridgeVars
    BY <2>3, <2>12 DEF bridgeVars, webVars, mainVars
  <2>14. QED
    BY <2>4, <2>5, <2>6, <2>13, <2>7, <2>8, <2>9, <2>10, <2>11, <2>12
       DEF BridgeNext, BootStep, SaveStep
<1>3. PairInv /\ [BridgeNext]_bridgeVars =>
        (sta' # sta /\ sta' # NoCredentials /\ intact /\ ~torn' => sta' \in Networks)
  <2> SUFFICES ASSUME PairInv, [BridgeNext]_bridgeVars, sta' # sta,
                      sta' # NoCredentials, intact, ~torn'
               PROVE  sta' \in Networks
    OBVIOUS
  <2>1. httpd # "saving" => Credentials(Loaded) \in Networks
    BY DEF PairInv, Stored
  <2>2. CASE AppWlanStart
    <3>1. httpd = "down"
      BY <2>2 DEF AppWlanStart, PairInv, BridgeInv
    <3>2. PICK K \in SUBSET Fields : sta' = Credentials(Lapsed(K)) /\ ~Split(K)
      BY <2>2 DEF AppWlanStart
    <3>3. QED
      BY <2>1, <3>1, <3>2, LapsedFacts DEF PairedForms
  <2>3. CASE ReconnectSsid
    BY <2>3 DEF ReconnectSsid, PairedForms
  <2>4. CASE ReconnectPass
    <3>1. ~torn /\ httpd # "saving"
      BY <2>4 DEF ReconnectPass
    <3>2. reconnect = Loaded["h_ssid"]
      BY <2>4, <3>1 DEF ReconnectPass, PairInv
    <3>3. sta' = <<reconnect, Loaded["h_pass"]>>
      BY <2>4 DEF ReconnectPass
    <3>4. QED
      BY <2>1, <3>1, <3>2, <3>3 DEF Credentials
  <2>5. CASE Restart
    BY <2>5 DEF Restart
  <2>6. QED
    BY <2>2, <2>3, <2>4, <2>5
       DEF BridgeNext, BootStep, SaveStep, SettingsInit, AppWlanInit, LinkUp, Start2GhzAp,
           StartWebConfigServer, SavePost, SaveRefused, SetField, SaveCommit,
           RebootHandler, Reset, bridgeVars, mainVars
<1>4. QED
  BY <1>1, <1>2, <1>3, BridgeInvariant, PTL DEF BridgeSpec, CredentialsMatch

-----------------------------------------------------------------------------
(* Starting *)

\* Failed calls and resets are counted, and nothing but Restart ends a
\* reconnection before the device is up.
CountsInv ==
    /\ faults \in Nat /\ resets \in Nat
    /\ boot \notin {"ap", "web", "done"} => reconnect = Empty

(***************************************************************************)
(* Failed calls are only ever added to the count.                          *)
(***************************************************************************)
LEMMA FaultsCounted ==
    ASSUME faults \in Nat, [BridgeNext]_bridgeVars
    PROVE  faults' \in Nat /\ faults' >= faults
<1>1. CASE faults' = faults \/ faults' = faults + 1
  BY <1>1
<1>2. CASE \E K \in SUBSET Fields : Unread(K)
  BY <1>2, UnreadKeys
<1>3. QED
  BY <1>1, <1>2
     DEF BridgeNext, BootStep, SaveStep, SettingsInit, AppWlanInit, AppWlanStart, LinkUp,
         Start2GhzAp, StartWebConfigServer, SavePost, SaveRefused, SetField, SaveCommit,
         RebootHandler, Reset, ReconnectSsid, ReconnectPass, bridgeVars, OrFault, Fault

(***************************************************************************)
(* The counts of failed calls and resets stay numbers, and a reconnection  *)
(* is under way only when the link has been up.                            *)
(***************************************************************************)
LEMMA CountsInvariant == BridgeSpec => []CountsInv
<1>1. BridgeInit => CountsInv
  BY DEF BridgeInit, CountsInv
<1>2. BridgeInv /\ CountsInv /\ [BridgeNext]_bridgeVars => CountsInv'
  <2> SUFFICES ASSUME BridgeInv, CountsInv, [BridgeNext]_bridgeVars PROVE CountsInv'
    OBVIOUS
  <2>1. faults' \in Nat /\ resets' \in Nat
    <3>1. resets' = resets \/ resets' = resets + 1
      BY DEF BridgeNext, BootStep, SaveStep, SettingsInit, AppWlanInit, AppWlanStart, LinkUp,
             Start2GhzAp, StartWebConfigServer, SavePost, SaveRefused, SetField, SaveCommit,
             RebootHandler, Reset, ReconnectSsid, ReconnectPass, bridgeVars
    <3>2. QED
      BY <3>1, FaultsCounted DEF CountsInv
  <2>2. boot' \notin {"ap", "web", "done"} => reconnect' = Empty
    <3>1. CASE Restart
      BY <3>1 DEF Restart
    <3>2. CASE boot \in {"ap", "web", "done"} => boot' \in {"ap", "web", "done"}
      BY <3>2 DEF CountsInv, BridgeNext, BootStep, SaveStep, SettingsInit, AppWlanInit,
           AppWlanStart, LinkUp, Start2GhzAp, StartWebConfigServer, SavePost, SaveRefused,
           SetField, SaveCommit, RebootHandler, Reset, ReconnectSsid, ReconnectPass,
           bridgeVars, mainVars, reconnectVars, Restart
    <3>3. QED
      BY <3>1, <3>2
         DEF BridgeNext, BootStep, SaveStep, SettingsInit, AppWlanInit,
           AppWlanStart, LinkUp, Start2GhzAp, StartWebConfigServer, SavePost, SaveRefused,
           SetField, SaveCommit, RebootHandler, Reset, ReconnectSsid, ReconnectPass,
           bridgeVars, mainVars
  <2>3. QED
    BY <2>1, <2>2 DEF CountsInv
<1>3. QED
  BY <1>1, <1>2, BridgeInvariant, PTL DEF BridgeSpec

(***************************************************************************)
(* A start with usable settings is not broken off: without a failed call,  *)
(* load_channel_list and start_2ghz_ap see the settings that are stored,   *)
(* and no other step restarts the device unasked.                          *)
(***************************************************************************)
THEOREM BridgeRestartsExplained == BridgeSpec => RestartsExplained
<1>1. BridgeInv /\ CountsInv /\ [BridgeNext]_bridgeVars =>
        (boot # "settings" /\ boot' = "settings" /\ UNCHANGED <<faults, resets>>
            => ~Usable(Stored))
  <2> SUFFICES ASSUME BridgeInv, CountsInv, [BridgeNext]_bridgeVars, boot # "settings",
                      boot' = "settings", UNCHANGED <<faults, resets>>
               PROVE  ~Usable(Stored)
    OBVIOUS
  <2>1. ~Fault
    BY DEF Fault, CountsInv
  <2>14. \A K \in SUBSET Fields : Unread(K) => Lapsed(K) = Loaded
    BY UnreadKeys, LapsedFacts DEF CountsInv
  <2>2. resets' # resets + 1
    BY DEF CountsInv
  <2>3. CASE AppWlanInit
    <3>1. httpd = "down" /\ Loaded["country"] \notin Countries
      BY <2>3, <2>14 DEF AppWlanInit, BridgeInv
    <3>2. QED
      BY <3>1 DEF Usable, Stored
  <2>4. CASE Start2GhzAp
    <3>1. httpd = "down" /\ Loaded["ap_pass"] \notin ApPasswords
      BY <2>1, <2>4, <2>14 DEF Start2GhzAp, BridgeInv
    <3>2. QED
      BY <3>1 DEF Usable, Stored
  <2>5. QED
    BY <2>2, <2>3, <2>4
       DEF BridgeNext, BootStep, SaveStep, SettingsInit, AppWlanStart, LinkUp,
           StartWebConfigServer, SavePost, SaveRefused, SetField, SaveCommit,
           RebootHandler, Reset, ReconnectSsid, ReconnectPass, bridgeVars, mainVars
<1>2. QED
  BY <1>1, BridgeInvariant, CountsInvariant, PTL DEF BridgeSpec, RestartsExplained

\* A device none of whose calls has failed waits for the network that is stored,
\* and when it has started its web page is there.
StartFollowsStore ==
    faults = 0 => /\ boot = "link" => sta = Credentials(Stored)
                  /\ boot = "done" => httpd # "down"

(***************************************************************************)
(* app_main leads from what is stored to the web page: with usable         *)
(* settings the wait of app_wlan_start is for a network in range, and no   *)
(* save, reset or reconnection makes the start end without a page.         *)
(***************************************************************************)
THEOREM BridgeStartFollowsStore == BridgeSpec => []StartFollowsStore
<1>1. BridgeInit => StartFollowsStore
  BY DEF BridgeInit, StartFollowsStore
<1>2. /\ BridgeInv /\ BridgeInv' /\ CountsInv /\ CountsInv'
      /\ StartFollowsStore /\ [BridgeNext]_bridgeVars
      => StartFollowsStore'
  <2> SUFFICES ASSUME BridgeInv, BridgeInv', CountsInv, CountsInv', StartFollowsStore,
                      [BridgeNext]_bridgeVars, faults' = 0
               PROVE  /\ boot' = "link" => sta' = Credentials(Stored')
                      /\ boot' = "done" => httpd' # "down"
    BY DEF StartFollowsStore
  <2>1. faults' >= faults
    BY FaultsCounted DEF CountsInv
  <2>2. faults = 0
    BY <2>1 DEF CountsInv
  <2>3. ~Fault
    BY <2>2 DEF Fault
  <2>4. CASE SettingsInit \/ AppWlanInit \/ LinkUp \/ Start2GhzAp
    BY <2>3, <2>4 DEF SettingsInit, AppWlanInit, LinkUp, Start2GhzAp, Restart
  <2>5. CASE AppWlanStart
    <3>1. httpd = "down" /\ httpd' = "down" /\ flash' = flash /\ boot' = "link"
      BY <2>5 DEF AppWlanStart, BridgeInv, webVars
    <3>2. sta' = Credentials(Loaded)
      BY <2>2, <2>5, UnreadKeys, LapsedFacts DEF AppWlanStart
    <3>3. Stored' = Loaded
      BY <3>1 DEF Stored, Loaded
    <3>4. QED
      BY <3>1, <3>2, <3>3
  <2>6. CASE StartWebConfigServer
    BY <2>3, <2>6 DEF StartWebConfigServer, OrFault
  <2>7. CASE RebootHandler \/ Reset
    BY <2>7 DEF RebootHandler, Reset, Restart
  <2>8. CASE SaveRefused \/ SetField \/ SaveCommit \/ \E form \in Forms : SavePost(form)
    <3>1. boot = "done" /\ boot' = boot /\ httpd' # "down"
      BY <2>8 DEF SaveRefused, SetField, SaveCommit, SavePost, mainVars, BridgeInv
    <3>2. QED
      BY <3>1
  <2>9. CASE ReconnectSsid \/ ReconnectPass
    <3>1. boot' = boot /\ httpd' = httpd
      BY <2>9 DEF ReconnectSsid, ReconnectPass, webVars
    <3>2. boot # "link"
      BY <2>9 DEF ReconnectSsid, ReconnectPass, CountsInv
    <3>3. QED
      BY <2>2, <3>1, <3>2 DEF StartFollowsStore
  <2>10. CASE UNCHANGED bridgeVars
    <3>1. /\ boot' = boot /\ httpd' = httpd /\ sta' = sta /\ flash' = flash /\ save' = save
      BY <2>10 DEF bridgeVars, mainVars, webVars
    <3>2. Stored' = Stored
      BY <3>1 DEF Stored, Loaded
    <3>3. QED
      BY <2>2, <3>1, <3>2 DEF StartFollowsStore
  <2>11. QED
    BY <2>4, <2>5, <2>6, <2>7, <2>8, <2>9, <2>10 DEF BridgeNext, BootStep, SaveStep
<1>3. QED
  BY <1>1, <1>2, BridgeInvariant, CountsInvariant, PTL DEF BridgeSpec

=============================================================================
