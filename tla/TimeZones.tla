------------------------------ MODULE TimeZones ------------------------------
(***************************************************************************)
(* The options of the time-zone select (select.py).  Labels are shown,     *)
(* values are written.  The server's list is a function from the values it *)
(* offers to their labels, which are not empty; the charger's own value    *)
(* may be missing from it, and is then shown as it is.                     *)
(***************************************************************************)
Null == "null"      \* None

Labels(list) == {list[v] : v \in DOMAIN list}

\* The label the list has for a value.
LabelForValue(list, v) == IF v \in DOMAIN list THEN list[v] ELSE Null

\* The value an option stands for (the code takes the first), None if it is no label of the list.
ValueForLabel(list, o) ==
    IF o \in Labels(list) THEN CHOOSE v \in DOMAIN list : list[v] = o ELSE Null

\* Mutant: the list alone.
ListedOptions(list, v) == Labels(list)

\* `options`: the labels, and the current value if it has none of them.
Options(list, v) ==
    Labels(list) \cup {w \in {v} : w # Null /\ LabelForValue(list, w) = Null}

\* `current_option`, None if the charger has reported no value.
CurrentOption(list, v) ==
    IF LabelForValue(list, v) # Null THEN LabelForValue(list, v) ELSE v
=============================================================================
