--------------------------- MODULE SettingsPage ---------------------------
(***************************************************************************)
(* The settings page (pages/Settings.tsx) and the endpoint behind it       *)
(* (api/settings.py).  A section of the page keeps a draft of all its      *)
(* fields from the first edit on, and saves all of them.  The endpoint     *)
(* stores one key after the other; someone else may save meanwhile.        *)
(***************************************************************************)
EXTENDS Naturals, FiniteSets

CONSTANTS
  Unset,
  Sections,     \* of the page: the five of them are one piece of code five times
  KeyOf,        \* by section: the keys of its fields
  FieldValues,  \* what a field can hold
  Default,      \* by key: what the page shows for a key that is not stored
  MaxEdits, MaxOthers   \* bounds: edits, and saves by someone else

ASSUME SectionsApart ==
  /\ Unset \notin FieldValues
  /\ Unset \notin [UNION {KeyOf[s] : s \in Sections} -> FieldValues \cup {Unset}]
  /\ \A s \in Sections : Unset \notin [KeyOf[s] -> FieldValues]
  /\ \A k \in UNION {KeyOf[s] : s \in Sections} : Default[k] \in FieldValues
  /\ \A s, r \in Sections : KeyOf[s] \cap KeyOf[r] # {} => s = r

VARIABLES
  settings,     \* the table: by key, Unset where there is no row
  stored,       \* the answer of GET /settings/ the page has, Unset before the first
  draft,        \* by section: Unset, or its fields from the first edit on
  patch,        \* Unset, or what is left to store of the PATCH under way
  touched,      \* history: keys the user edited
  blind,        \* history: sections whose draft began before the first answer
  overtaken,    \* history: keys someone else stored since their draft or answer
  edits, others

formVars == <<settings, stored, draft, patch, touched, blind, overtaken, edits, others>>

Keys == UNION {KeyOf[s] : s \in Sections}
SectionOf(k) == CHOOSE s \in Sections : k \in KeyOf[s]
Tables == [Keys -> FieldValues \cup {Unset}]

FormTypeOK ==
  /\ settings \in Tables /\ stored \in Tables \cup {Unset}
  /\ \A s \in Sections : draft[s] = Unset \/ draft[s] \in [KeyOf[s] -> FieldValues]
  /\ patch # Unset => DOMAIN patch \subseteq Keys
  /\ touched \subseteq Keys /\ blind \subseteq Sections /\ overtaken \subseteq Keys

FormInit ==
  /\ settings \in [Keys -> {Unset}]
  /\ stored = Unset /\ draft = [s \in Sections |-> Unset] /\ patch = Unset
  /\ touched = {} /\ blind = {} /\ overtaken = {} /\ edits = 0 /\ others = 0

Shown(table, k) == IF table = Unset \/ table[k] = Unset THEN Default[k] ELSE table[k]

\* Mutant: the fields the user leaves alone are the defaults.
Vals_Defaults(s) == IF draft[s] # Unset THEN draft[s] ELSE [k \in KeyOf[s] |-> Default[k]]

\* What the section shows, retVals and its like: the draft, else what is stored.
Vals(s) == IF draft[s] # Unset THEN draft[s] ELSE [k \in KeyOf[s] |-> Shown(stored, k)]

\* upd: an edit makes a draft of every field of the section.
Edit(k, v) ==
  LET s == SectionOf(k)
  IN  /\ edits < MaxEdits
      /\ edits' = edits + 1
      /\ draft' = [draft EXCEPT ![s] = [Vals(s) EXCEPT ![k] = v]]
      /\ touched' = touched \cup {k}
      /\ blind' = IF stored = Unset /\ draft[s] = Unset THEN blind \cup {s} ELSE blind
      /\ UNCHANGED <<settings, stored, patch, overtaken, others>>

\* The save button of a section, edited or not.
Save(s) ==
  /\ patch = Unset
  /\ patch' = Vals(s)
  /\ blind' = IF stored = Unset THEN blind \cup {s} ELSE blind
  /\ UNCHANGED <<settings, stored, draft, touched, overtaken, edits, others>>

Remaining(k) == [j \in DOMAIN patch \ {k} |-> patch[j]]

\* set_setting of one key, committed before the next.
SetSetting(k) ==
  /\ patch # Unset /\ k \in DOMAIN patch
  /\ settings' = [settings EXCEPT ![k] = patch[k]]
  /\ patch' = Remaining(k)
  /\ UNCHANGED <<stored, draft, touched, blind, overtaken, edits, others>>

\* The last key is stored, or the server stopped among them: the draft stays either way.
Answered ==
  /\ patch # Unset
  /\ patch' = Unset
  /\ UNCHANGED <<settings, stored, draft, touched, blind, overtaken, edits, others>>

\* GET /settings/, first or after a save: sections without a draft show the answer.
Load ==
  /\ stored' = settings
  /\ overtaken' = {k \in overtaken : draft[SectionOf(k)] # Unset
                                       \/ (patch # Unset /\ k \in DOMAIN patch)}
  /\ UNCHANGED <<settings, draft, patch, touched, blind, edits, others>>

\* Another tab saves a key.
SomeoneElse(k, v) ==
  /\ others < MaxOthers
  /\ others' = others + 1
  /\ settings' = [settings EXCEPT ![k] = v]
  /\ overtaken' = overtaken \cup {k}
  /\ UNCHANGED <<stored, draft, patch, touched, blind, edits>>

FormNext ==
  \/ \E k \in Keys, v \in FieldValues : Edit(k, v) \/ SomeoneElse(k, v)
  \/ \E s \in Sections : Save(s)
  \/ \E k \in Keys : SetSetting(k)
  \/ Answered \/ Load

FormSpec == FormInit /\ [][FormNext]_formVars

\* Saving a section leaves what every field the user did not edit is read as, although all
\* of them are written, and those of other sections too.  Not if the section was edited or
\* saved before the settings had come, or someone else stored the key meanwhile: then the
\* draft is stale, and what is stored is lost.
UntouchedKept ==
  [][\A k \in Keys : Shown(settings', k) # Shown(settings, k) =>
       k \in touched \cup overtaken' \/ SectionOf(k) \in blind]_formVars
=============================================================================
