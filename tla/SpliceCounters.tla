--------------------------- MODULE SpliceCounters ---------------------------
(* Which instance a generic call means, where it stands in a spliced body.   *)
(* Its place in the source does not say: the body is spliced at one type     *)
(* here and at another there.  So each splice takes a number, the checker    *)
(* records the instance under that number and the place, and the lowering,   *)
(* which splices the same bodies again, looks it up.  Nothing is handed over *)
(* but the table: the two walks must number the same splices alike.  They    *)
(* differ in what they walk.  The checker walks a literal before the splice  *)
(* that calls it, and a literal that becomes a value where it becomes one;   *)
(* the lowering gives the latter a function of its own, and splices a member *)
(* of a trait where the checker sees an ordinary call.                       *)
EXTENDS Integers, Sequences, SequencesExt, Functions

CONSTANTS
  Combinators, \* name of an always-spliced word |-> what its body is made of
  Texts,       \* the programs considered: for each word of the module, in
               \* order, the items of its body
  Stride,      \* numbers that each word has for its splices
  UidSpace,    \* numbers there are: those of a u32
  None

VARIABLES
  text,    \* the program
  phase,   \* "check", then "lower", then "done"; or "refused", "panic"
  word,    \* that the walk is in, or whose literals it lowers
  agenda,  \* items the walk has before it
  uid,     \* `inline_uid', the next number
  open,    \* `splice_uid', the top of `splice_uid_stack'
  inside,  \* `in_materialized_quot'
  records, \* `splice_records'
  insts,   \* `instantiations', by place alone
  values,  \* literals waiting for a function of their own
  meant    \* <<the type a call is at, the type of the instance it got>>
walk == <<text, phase, word, agenda, uid, open, inside, records, insts, values, meant>>
-----------------------------------------------------------------------------
\* An item of a body, at the types of its splice.  A call of a generic word
\* has a place; a splice a combinator and the literal it is given, a
\* "give" the literal it makes a value; a "member" is an inline one.
Item(op, name, place, ty, lit) == [op |-> op, name |-> name, place |-> place, ty |-> ty, lit |-> lit]
Generic(place, ty) == Item("generic", "", place, ty, <<>>)
Splice(name, ty, lit) == Item("splice", name, 0, ty, lit)
Give(lit) == Item("give", "", 0, "", lit)
Member(w) == Item("member", "", w, "", <<>>)

\* What is to be restored when a walk inside another ends.
Back(op, u, o, i) == [op |-> op, uid |-> u, open |-> o, inside |-> i]

\* The body of a combinator at a type, its parameter being the literal.
Body(name, ty, lit) ==
  FlattenSeq([k \in DOMAIN Combinators[name] |->
    LET part == Combinators[name][k]
    IN CASE part.op = "arg" -> lit
         [] part.op = "generic" -> <<Generic(part.place, ty)>>
         [] part.op = "give" -> <<Give(<<Generic(part.place, ty)>>)>>
         [] part.op = "splice" -> <<Splice(part.name, ty, lit)>>])

Set(f, key, value) == [x \in DOMAIN f \cup {key} |-> IF x = key THEN value ELSE f[x]]
Rest == Tail(agenda)
Next1 == agenda[1]
-----------------------------------------------------------------------------
(* The checker.                                                              *)

\* Of the numbers handed out while an argument is walked, none is kept.
UidKept(now, before) == now
UidAfterArgument(now, before) == before

\* `inline_combinator': the argument first, in the numbers and under the
\* splice of the caller,
CheckArgument ==
  /\ Next1.op = "splice"
  /\ agenda' = Next1.lit \o <<Item("enter", Next1.name, uid, Next1.ty, Next1.lit)>> \o Rest
  /\ UNCHANGED <<uid, open, inside, records, insts, phase>>

\* then the body, under a number of its own.
CheckBody ==
  /\ Next1.op = "enter"
  /\ LET mine == UidAfterArgument(uid, Next1.place)
     IN /\ uid' = mine + 1 /\ open' = mine
        /\ agenda' = Body(Next1.name, Next1.ty, Next1.lit) \o <<Back("leave", 0, open, inside)>> \o Rest
  /\ UNCHANGED <<inside, records, insts, phase>>

CheckLeave ==
  /\ Next1.op = "leave"
  /\ open' = Next1.open /\ inside' = Next1.inside /\ agenda' = Rest
  /\ UNCHANGED <<uid, records, insts, phase>>

\* `materialize_quotation_at_boundary'
CheckGive ==
  /\ Next1.op = "give"
  /\ inside' = TRUE
  /\ agenda' = Next1.lit \o <<Back("leave", 0, open, inside)>> \o Rest
  /\ UNCHANGED <<uid, open, records, insts, phase>>

\* `check_poly_call': under the number of the splice, but in a value, which
\* the lowering meets outside of it, by place alone; there two types collide.
CheckGeneric ==
  /\ Next1.op = "generic"
  /\ agenda' = Rest
  /\ IF open # None /\ ~inside
     THEN /\ records' = Set(records, <<open, Next1.place>>, Next1.ty)
          /\ UNCHANGED <<insts, phase>>
     ELSE /\ insts' = Set(insts, Next1.place, Next1.ty)
          /\ phase' = IF Next1.place \in DOMAIN insts /\ insts[Next1.place] # Next1.ty THEN "refused" ELSE phase
          /\ UNCHANGED records
  /\ UNCHANGED <<uid, open, inside>>

\* A member of a known impl is a word like any other.
CheckMember ==
  /\ Next1.op = "member"
  /\ agenda' = Rest
  /\ UNCHANGED <<uid, open, inside, records, insts, phase>>

CheckTerm ==
  /\ phase = "check" /\ agenda # <<>>
  /\ CheckArgument \/ CheckBody \/ CheckLeave \/ CheckGive \/ CheckGeneric \/ CheckMember
  /\ UNCHANGED <<text, word, values, meant>>

\* Every word has a range of numbers of its own, while they last.
Seed(w) == ((w - 1) * Stride) % UidSpace
Begin(w) == /\ word' = w /\ agenda' = text[w] /\ uid' = Seed(w) /\ open' = None /\ inside' = FALSE

CheckNextWord ==
  /\ phase = "check" /\ agenda = <<>>
  /\ IF word < Len(text) THEN Begin(word + 1) /\ UNCHANGED phase
                         ELSE Begin(1) /\ phase' = "lower"
  /\ UNCHANGED <<text, records, insts, values, meant>>
-----------------------------------------------------------------------------
(* The lowering.                                                             *)
LowerSplice ==
  /\ Next1.op = "splice"
  /\ uid' = uid + 1 /\ open' = uid
  /\ agenda' = Body(Next1.name, Next1.ty, Next1.lit) \o <<Back("leave", None, open, FALSE)>> \o Rest
  /\ UNCHANGED <<values, meant, phase>>

LowerLeave ==
  /\ Next1.op = "leave"
  /\ open' = Next1.open /\ agenda' = Rest
  /\ uid' = IF Next1.uid = None THEN uid ELSE Next1.uid
  /\ UNCHANGED <<values, meant, phase>>

\* A literal that is a value gets its function after the word.
LowerGive ==
  /\ Next1.op = "give"
  /\ values' = Append(values, Next1.lit) /\ agenda' = Rest
  /\ UNCHANGED <<uid, open, meant, phase>>

\* `lower_call': the record of the splice, or else the place alone.
Found == IF open # None /\ <<open, Next1.place>> \in DOMAIN records THEN records[<<open, Next1.place>>]
         ELSE IF Next1.place \in DOMAIN insts THEN insts[Next1.place] ELSE None
LowerGeneric ==
  /\ Next1.op = "generic"
  /\ meant' = <<Next1.ty, Found>> /\ agenda' = Rest
  /\ phase' = IF Found = None THEN "panic" ELSE phase
  /\ UNCHANGED <<uid, open, values>>

\* `splice_combinator_body', in the numbers of the member, which was checked
\* as a word.
LowerMember ==
  /\ Next1.op = "member"
  /\ uid' = Seed(Next1.place) /\ open' = Seed(Next1.place)
  /\ agenda' = text[Next1.place] \o <<Back("leave", uid, open, FALSE)>> \o Rest
  /\ UNCHANGED <<values, meant, phase>>

LowerTerm ==
  /\ phase = "lower" /\ agenda # <<>>
  /\ LowerSplice \/ LowerLeave \/ LowerGive \/ LowerGeneric \/ LowerMember
  /\ UNCHANGED <<text, word, inside, records, insts>>

\* `lower_materialized': every such function counts from 0.
LowerValue ==
  /\ phase = "lower" /\ agenda = <<>> /\ values # <<>>
  /\ agenda' = values[1] /\ values' = Tail(values)
  /\ uid' = 0 /\ open' = None
  /\ UNCHANGED <<text, phase, word, inside, records, insts, meant>>

LowerNextWord ==
  /\ phase = "lower" /\ agenda = <<>> /\ values = <<>>
  /\ IF word < Len(text) THEN Begin(word + 1) /\ UNCHANGED phase
                         ELSE phase' = "done" /\ UNCHANGED <<word, agenda, uid, open, inside>>
  /\ UNCHANGED <<text, records, insts, values, meant>>
-----------------------------------------------------------------------------
CountersInit ==
  /\ text \in Texts
  /\ phase = "check" /\ word = 1 /\ agenda = text[1]
  /\ uid = 0 /\ open = None /\ inside = FALSE
  /\ records = <<>> /\ insts = <<>> /\ values = <<>> /\ meant = <<"", "">>

CountersNext == CheckTerm \/ CheckNextWord \/ LowerTerm \/ LowerValue \/ LowerNextWord

\* A generic call gets the instance at the type of the splice it stands in:
\* the lowering finds one, and it is the checker's.  (`splice_records', the
\* argument walk that leaves no trace in the counter, combinators.rs 341-352,
\* and the numbers that members and values are lowered under.)
RightInstance == phase # "panic" /\ meant[1] = meant[2]
=============================================================================
