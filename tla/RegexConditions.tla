---------------------------- MODULE RegexConditions ----------------------------
(***************************************************************************)
(* The characters that a transition of the automaton accepts (the          *)
(* process_*_transition functions of matcher.cpp that read one character). *)
(***************************************************************************)
EXTENDS Integers, Characters, SequencesExt

\* The character classes, and the characters of a bracket expression.
InClass(class, c) ==
    CASE class = "d" -> c \in Digits
      [] class = "D" -> c \notin Digits
      [] class = "w" -> c \in Letters \cup Digits \cup {"_"}
      [] class = "W" -> c \notin Letters \cup Digits \cup {"_"}
      [] class = "s" -> c \in Blanks
      [] class = "S" -> c \notin Blanks

NoEnd == ""     \* a CharacterRange without an end is one character

InRange(item, c) ==
    IF item.to = NoEnd THEN c = item.from
    ELSE Code[item.from] <= Code[c] /\ Code[c] <= Code[item.to]

ItemTakes(item, c) ==
    CASE item.kind = "char"  -> c = item.char
      [] item.kind = "class" -> InClass(item.class, c)
      [] item.kind = "range" -> InRange(item, c)
      [] item.kind = "category" -> TRUE     \* the search throws there

\* The first item that takes c, or 0.
FirstItem(set, c) ==
    SelectInSeq(set.items, LAMBDA item : ItemTakes(item, c))

\* Unicode categories are not implemented: an item that is one throws.
ReachesCategory(set, c) ==
    LET i == FirstItem(set, c) IN i # 0 /\ set.items[i].kind = "category"

Takes(condition, c) ==
    CASE condition.kind = "set" -> (FirstItem(condition, c) # 0) # condition.negated
      [] OTHER -> ItemTakes(condition, c)

================================================================================
