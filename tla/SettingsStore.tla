---------------------------- MODULE SettingsStore ---------------------------
(***************************************************************************)
(* What the web page promises about the settings: a form that is reported  *)
(* as saved has replaced exactly the fields that it fills in, with what    *)
(* fits of their texts, and a form that is refused has changed nothing.    *)
(* After a fault nothing is promised until a complete form has been saved. *)
(* Bridge implements this.                                                 *)
(***************************************************************************)
CONSTANTS
    Fields,     \* the seven settings
    Default,    \* settings of a device that has stored none
    Forms,      \* what users submit; a field may be left Empty
    Empty,
    InRange(_, _),  \* a number that the code accepts for a field
    Fit(_, _)       \* a text cut to the size of a field

VARIABLES
    stored,     \* the settings that the next start will use
    intact,     \* no fault since the last complete form
    told        \* last answer of the web page

storeVars == <<stored, intact, told>>

\* The fields that a form fills in with something acceptable replace the others.
Overlay(s, form) ==
    [k \in Fields |-> IF form[k] # Empty /\ InRange(k, form[k]) THEN Fit(k, form[k])
                                                               ELSE s[k]]

Complete(form) == \A k \in Fields : form[k] # Empty /\ InRange(k, form[k])

StoreInit ==
    /\ stored = Default
    /\ intact = TRUE
    /\ told = "nothing"

Saved(form) ==
    /\ stored' = Overlay(stored, form)
    /\ intact' = (intact \/ Complete(form))
    /\ told' = "saved"

Refused ==
    /\ told' = "refused"
    /\ UNCHANGED <<stored, intact>>

\* A restart, after which nobody has been answered yet.
Restarted ==
    /\ told' = "nothing"
    /\ UNCHANGED <<stored, intact>>

StoreFault == intact' = FALSE

StoreNext == (\E form \in Forms : Saved(form)) \/ Refused \/ Restarted \/ StoreFault

StoreSpec == StoreInit /\ [][StoreNext]_storeVars

=============================================================================
