------------------------------- MODULE Tblcmp -------------------------------
(***************************************************************************)
(* The transition tables (tblcmp.cpp, the end of ntod() in dfa.cpp, and    *)
(* gentabs(), genctbl() in gen.cpp).                                       *)
(*                                                                         *)
(* ntod() hands over the rows of the automaton one by one.  bldtbl() packs *)
(* a row into the arrays nxt and chk as a difference to a row it has seen  *)
(* ("proto") or to a row that always goes to one state ("template");       *)
(* place_state() packs it whole; -Cf writes it as it is.  The scanner then *)
(* decodes what was packed, character by character.                        *)
(*                                                                         *)
(* The percentages and the sizes of flexdef.h are constants here, so that  *)
(* every branch is taken with a handful of classes.  Templates are         *)
(* negative numbers, as in the code, until gentabs() renumbers them.       *)
(***************************************************************************)
EXTENDS Integers, SequencesExt, FiniteSetsExt

CONSTANTS
  numecs,      \* the equivalence classes of characters
  lastdfa,     \* the states
  EobState,    \* the one for the end of the buffer, but in fast scanners
  Rows,        \* bound: the rows a state may have, and what ntod() knows of them
  Schemes,     \* "compressed", "full" (-Cf) and "fast" (-CF)
  PROTO_SIZE_PERCENTAGE, CHECK_COM_PERCENTAGE, FIRST_MATCH_DIFF_PERCENTAGE,
  ACCEPTABLE_DIFF_PERCENTAGE, TEMPLATE_SAME_PERCENTAGE,
  NEW_PROTO_DIFF_PERCENTAGE, INTERIOR_FIT_PERCENTAGE,
  MSP, PROT_SAVE_SIZE, ONE_STACK_SIZE, MAX_XTIONS_FULL_INTERIOR_FIT

Ecs == 1 .. numecs
NUL_ec == numecs      \* where nultrans is set
States == 1 .. lastdfa
NIL == 0
SAME_TRANS == -1
JAMSTATE == -32766

\* A row: the state that each class goes to, 0 if none, and the classes whose
\* transitions sympartition() found to be unlike those of the classes before.
RowType == [to : [Ecs -> 0 .. lastdfa], uniq : SUBSET Ecs]
Symbols(r) == {c \in Ecs : r.to[c] # 0}

ASSUME SizesAssumption ==
  /\ numecs \in Nat \ {0} /\ lastdfa \in Nat \ {0} /\ EobState \in States
  /\ {MSP, PROT_SAVE_SIZE, ONE_STACK_SIZE, MAX_XTIONS_FULL_INTERIOR_FIT} \subseteq Nat
  /\ Schemes \subseteq {"compressed", "full", "fast"}
ASSUME RowsAssumption ==
  /\ Rows \subseteq RowType
  /\ \A r \in Rows : /\ r.uniq \subseteq Symbols(r)
                     /\ \A c \in Symbols(r) \ r.uniq :
                          \E d \in r.uniq : d < c /\ r.to[d] = r.to[c]
\* The queue of protos has room for two, a state without transitions is never
\* compared with them, and the one-stack has room.
ASSUME ThresholdsAssumption ==
  /\ MSP >= 3 /\ PROT_SAVE_SIZE > 2 * numecs /\ ONE_STACK_SIZE >= 1
  /\ PROTO_SIZE_PERCENTAGE \in 1 .. 100
  /\ {CHECK_COM_PERCENTAGE, FIRST_MATCH_DIFF_PERCENTAGE, ACCEPTABLE_DIFF_PERCENTAGE,
      TEMPLATE_SAME_PERCENTAGE, NEW_PROTO_DIFF_PERCENTAGE, INTERIOR_FIT_PERCENTAGE}
        \subseteq 0 .. 99
  /\ CHECK_COM_PERCENTAGE < TEMPLATE_SAME_PERCENTAGE

VARIABLES
  scheme, usemecs, nultrans,   \* the options
  pc,
  rows,    \* the rows given, of the states up to ds
  tbl,     \* nxt, chk, their size, tblend, firstfree; base and def of the states; the one-stack
  prot,    \* the queue of protos, a doubly linked list of slots
  tnxt,    \* the rows of the templates
  placed,  \* the templates that cmptmps() is done with
  full,    \* the rows of a full table
  nul      \* the transitions on NUL kept apart

vars == <<scheme, usemecs, nultrans, pc, rows, tbl, prot, tnxt, placed, full, nul>>
options == <<scheme, usemecs, nultrans>>

jamstate == lastdfa + 1
TemplateState(n) == jamstate + n
Larger(a, b) == IF a < b THEN b ELSE a

----------------------------------------------------------------------------
(* The arrays nxt and chk                                                  *)

\* chk.resize(n); nxt.resize(n), if they are smaller.
Grown(t, n) ==
  IF n <= t.size THEN t
  ELSE [t EXCEPT !.size = n,
                 !.chk = [a \in 0 .. n - 1 |-> IF a < t.size THEN t.chk[a] ELSE 0],
                 !.nxt = [a \in 0 .. n - 1 |-> IF a < t.size THEN t.nxt[a] ELSE 0]]

Free(t, a) == a >= t.size \/ t.chk[a] = 0

\* The places from a on that are free, up to the first beyond the arrays.
FreeFrom(t, a) == {b \in a .. Larger(a, t.size) : Free(t, b)}

\* mk1tbl(): a row with one transition goes to the first free place that is
\* not before sym.
Mk1tbl(t, state, sym, onenxt, onedef) ==
  LET from == Larger(t.firstfree, sym)
      a == IF from >= t.size THEN from + 1 ELSE Min(FreeFrom(t, from))
      g == Grown(t, IF a > t.tblend THEN a + 2 ELSE a + 1)
  IN  [g EXCEPT !.base[state] = a - sym, !.def[state] = onedef,
                !.chk[a] = state, !.nxt[a] = onenxt,
                !.firstfree = IF a > t.tblend THEN a + 1 ELSE a,
                !.tblend = Larger(t.tblend, a)]

\* stack1(): such a row waits until the others are placed, if there is room.
Stack1_Full(t, state, sym, nextstate, deflink) ==
  IF Len(t.one) >= ONE_STACK_SIZE
  THEN Mk1tbl(t, state, sym, nextstate, deflink)
  ELSE [t EXCEPT !.one = Append(@, [state |-> state, sym |-> sym,
                                    next |-> nextstate, def |-> deflink])]
Stack1(t, state, sym, nextstate, deflink) ==
  IF Len(t.one) >= ONE_STACK_SIZE - 1
  THEN Mk1tbl(t, state, sym, nextstate, deflink)
  ELSE [t EXCEPT !.one = Append(@, [state |-> state, sym |-> sym,
                                    next |-> nextstate, def |-> deflink])]

\* mkentry(): the entries of the row that its default does not supply.
NeedsEntry_NoJams(row, c, deflink) == row[c] # SAME_TRANS /\ row[c] # 0
NeedsEntry(row, c, deflink) == row[c] # SAME_TRANS /\ (row[c] # 0 \/ deflink # JAMSTATE)

FitsAt_First(t, needed, minec, a) == Free(t, a)
FitsAt(t, needed, minec, a) == \A c \in needed : Free(t, a + c - minec)

\* The place of the first of them: in a gap if the row is sparse.
PlaceFor_Negative(t, needed, minec, sparse) ==
  IF sparse
  THEN Min({a \in t.firstfree .. Larger(t.firstfree, t.size) : FitsAt(t, needed, minec, a)})
  ELSE t.tblend + 1
PlaceFor(t, needed, minec, sparse) ==
  IF sparse
  THEN Min({a \in t.firstfree .. Larger(Larger(t.firstfree, t.size), minec) :
              a >= minec /\ FitsAt(t, needed, minec, a)})
  ELSE Larger(t.tblend + 1, minec)

\* "Find next free slot in tables": the search relies on finding one inside.
NextFree(t) == Min(FreeFrom(t, t.firstfree + 1))

\* A row without transitions of its own.
NoEntry(t, statenum, deflink) ==
  [t EXCEPT !.base[statenum] = IF deflink = JAMSTATE THEN JAMSTATE ELSE 0,
            !.def[statenum] = deflink]

\* over is what lies in memory behind the row: totaltrans counts a transition
\* on NUL that nultrans took out of the row, and mkentry() may run past it.
MkEntry(t, row, numchars, statenum, deflink, totaltrans, over) ==
  LET needed == {c \in 1 .. numchars : NeedsEntry(row, c, deflink)}
      minec == Min(needed \cup {numchars + 1})
      maxec == Max(needed \cup {0})
      a == PlaceFor(t, needed, minec, totaltrans * 100 <= numchars * INTERIOR_FIT_PERCENTAGE)
      tblbase == a - minec
      tbllast == tblbase + maxec
      g == Grown(t, tbllast + 2)
      own == {tblbase + c : c \in needed}
      f == [g EXCEPT !.base[statenum] = tblbase, !.def[statenum] = deflink,
                     !.chk = [b \in DOMAIN @ |-> IF b \in own THEN statenum ELSE @[b]],
                     !.nxt = [b \in DOMAIN @ |-> IF b \in own THEN row[b - tblbase] ELSE @[b]]]
  IN  IF totaltrans = 0
      THEN NoEntry(t, statenum, deflink)
      ELSE IF totaltrans = 1
      THEN Stack1(t, statenum, minec, IF needed = {} THEN over ELSE row[minec], deflink)
      ELSE [f EXCEPT !.firstfree = IF a = @ THEN NextFree(f) ELSE @,
                     !.tblend = Larger(@, tbllast)]

----------------------------------------------------------------------------
(* The queue of protos                                                     *)

NoProtos == [num |-> 0, first |-> NIL, last |-> 1,
             next |-> [s \in 1 .. MSP - 1 |-> NIL], prev |-> [s \in 1 .. MSP - 1 |-> NIL],
             tbl |-> [s \in 1 .. MSP - 1 |-> 0], comst |-> [s \in 1 .. MSP - 1 |-> 0],
             save |-> [s \in 1 .. MSP - 1 |-> <<>>]]

\* The slots in the order of the links.
Queue(p) ==
  LET from[n \in 0 .. MSP] ==
        IF n = 0 THEN <<>>
        ELSE LET q == from[n - 1]
                 s == IF q = <<>> THEN p.first ELSE p.next[Last(q)]
             IN  IF s = NIL THEN q ELSE Append(q, s)
  IN  from[MSP]

\* mkprot(): at the front; the last one makes room if there is none.
MkProt(p, row, statenum, comstate) ==
  LET noroom == p.num + 1 >= MSP \/ numecs * (p.num + 1) >= PROT_SAVE_SIZE
      slot == IF noroom THEN p.last ELSE p.num + 1
      last == IF noroom THEN p.prev[p.last] ELSE p.last
      next == [[p.next EXCEPT ![last] = IF noroom THEN NIL ELSE @] EXCEPT ![slot] = p.first]
  IN  [num |-> p.num + 1, first |-> slot, last |-> last, next |-> next,
       prev |-> IF p.first # NIL THEN [p.prev EXCEPT ![p.first] = slot] ELSE p.prev,
       tbl |-> [p.tbl EXCEPT ![slot] = statenum],
       comst |-> [p.comst EXCEPT ![slot] = comstate],
       save |-> [p.save EXCEPT ![slot] = row]]

\* mv2front(): the one just used.
Mv2front_KeepLast(p, e) ==
  IF p.first = e THEN p
  ELSE LET before == p.prev[e]
           after == p.next[e]
       IN  [p EXCEPT !.first = e,
                     !.next = [[@ EXCEPT ![before] = after] EXCEPT ![e] = p.first],
                     !.prev = [s \in DOMAIN @ |-> IF s = p.first THEN e
                                                  ELSE IF s = e THEN NIL
                                                  ELSE IF s = after THEN before ELSE @[s]]]
Mv2front(p, e) ==
  IF p.first = e THEN p
  ELSE LET before == p.prev[e]
           after == p.next[e]
       IN  [p EXCEPT !.first = e,
                     !.last = IF e = @ THEN before ELSE @,
                     !.next = [[@ EXCEPT ![before] = after] EXCEPT ![e] = p.first],
                     !.prev = [s \in DOMAIN @ |-> IF s = p.first THEN e
                                                  ELSE IF s = e THEN NIL
                                                  ELSE IF s = after THEN before ELSE @[s]]]

\* tbldiff(): the row without what it shares with a proto.
Without(row, proto) == [c \in Ecs |-> IF proto[c] = row[c] THEN SAME_TRANS ELSE row[c]]
Differences(row, proto) == Cardinality({c \in Ecs : proto[c] # row[c]})

\* The proto bldtbl() takes for the row, and how much they differ.
Chosen(p, row, totaltrans, comstate, checkcom) ==
  LET q == Queue(p)
      D(k) == Differences(row, p.save[q[k]])
      same == {k \in DOMAIN q : p.comst[q[k]] = comstate}
      k0 == IF checkcom /\ same # {} THEN Min(same) ELSE 1
      diff0 == IF q = <<>> \/ (checkcom /\ same = {}) THEN totaltrans ELSE D(k0)
      better == IF diff0 * 100 > totaltrans * FIRST_MATCH_DIFF_PERCENTAGE
                THEN {k \in k0 .. Len(q) : D(k) < diff0} ELSE {}
      best == {k \in better : \A l \in better : D(k) <= D(l)}
  IN  IF better # {} THEN [slot |-> q[Min(best)], diff |-> D(Min(best))]
      ELSE [slot |-> IF q = <<>> THEN NIL ELSE q[k0], diff |-> diff0]

\* The destination that is most common, counted as ntod() does: a class that
\* is unlike those before it begins a count of its own.
Frequency(r, c) ==
  LET first == Min({d \in r.uniq : r.to[d] = r.to[c]})
  IN  IF c = first THEN 1 + Cardinality({d \in Symbols(r) \ r.uniq : r.to[d] = r.to[c]})
      ELSE 1
ComFreq(r) == IF r.uniq = {} THEN 0 ELSE Max({Frequency(r, c) : c \in r.uniq})
ComState(r) == IF r.uniq = {} THEN 0
               ELSE r.to[Min({c \in r.uniq : Frequency(r, c) = ComFreq(r)})]

----------------------------------------------------------------------------
(* ntod() gives the rows                                                   *)

ds == Len(rows) + 1   \* the state whose row is next

\* NUL has a table of its own next to compressed tables only when every character
\* has a class of its own: the classes are many then, and a state with one
\* transition is too small for a proto.
Init ==
  /\ scheme \in Schemes /\ usemecs \in BOOLEAN /\ nultrans \in BOOLEAN
  /\ scheme = "fast" => ~nultrans
  /\ scheme \in {"full", "fast"} => ~usemecs
  /\ scheme = "compressed" /\ nultrans => numecs * PROTO_SIZE_PERCENTAGE > 100
  /\ pc = IF scheme = "fast" THEN "begin" ELSE "rows"
  /\ rows = <<>> /\ tnxt = <<>> /\ placed = 0
  /\ full = <<>> /\ nul = <<>>
  /\ tbl = [size |-> 1, chk |-> [a \in {0} |-> 0], nxt |-> [a \in {0} |-> 0],
            tblend |-> 0, firstfree |-> 1, one |-> <<>>,
            base |-> [s \in 0 .. 2 * lastdfa + 1 |-> 0],
            def |-> [s \in 0 .. 2 * lastdfa + 1 |-> 0]]
  /\ prot = NoProtos

\* The row of state ds, its transition on NUL kept apart if need be.
Given(r) ==
  /\ pc = "rows" /\ Len(rows) < lastdfa
  /\ rows' = Append(rows, r.to)
  /\ nul' = IF nultrans THEN Append(nul, r.to[NUL_ec]) ELSE nul
  /\ UNCHANGED <<options, pc, placed>>
Row(r) == IF nultrans THEN [r.to EXCEPT ![NUL_ec] = 0] ELSE r.to
Total(r) == Cardinality(Symbols(r))
NoRow == [to |-> [c \in Ecs |-> 0], uniq |-> {}]

EndOfBufferState ==
  /\ scheme = "compressed" /\ ds = EobState
  /\ Given(NoRow)
  /\ tbl' = Stack1(tbl, ds, 0, 0, JAMSTATE)
  /\ UNCHANGED <<prot, tnxt, full>>

\* bldtbl(): too few transitions to bother, or ...
TooFew(r) == Total(r) * 100 < numecs * PROTO_SIZE_PERCENTAGE
CheckCom(r) == ComFreq(r) * 100 > Total(r) * CHECK_COM_PERCENTAGE
Com(r) == IF CheckCom(r) THEN ComState(r) ELSE 0
Best(r) == Chosen(prot, Row(r), Total(r), Com(r), CheckCom(r))
Unlike(r) == Best(r).diff * 100 > Total(r) * ACCEPTABLE_DIFF_PERCENTAGE
Homogeneous(r) == ComFreq(r) * 100 >= Total(r) * TEMPLATE_SAME_PERCENTAGE

Compressed(r) == scheme = "compressed" /\ ds # EobState /\ Given(r)

SmallState(r, over) ==
  /\ Compressed(r) /\ TooFew(r)
  /\ tbl' = MkEntry(tbl, Row(r), numecs, ds, JAMSTATE, Total(r), over)
  /\ UNCHANGED <<prot, tnxt, full>>

\* ... mktemplate(), and the state as a difference to the template, ...
TemplateRow(r) == [c \in Ecs |-> IF Row(r)[c] = 0 THEN 0 ELSE Com(r)]
MkTemplate(r) ==
  /\ Compressed(r) /\ ~TooFew(r) /\ Unlike(r) /\ Homogeneous(r)
  /\ tnxt' = Append(tnxt, TemplateRow(r))
  /\ prot' = MkProt(prot, TemplateRow(r), -Len(tnxt'), Com(r))
  /\ LET proto == prot'.save[prot'.first]
     IN  tbl' = MkEntry(tbl, Without(Row(r), proto), numecs, ds, -Len(tnxt'),
                        Differences(Row(r), proto), 0)
  /\ UNCHANGED full

\* ... a proto, ...
NewProto(r, over) ==
  /\ Compressed(r) /\ ~TooFew(r) /\ Unlike(r) /\ ~Homogeneous(r)
  /\ prot' = MkProt(prot, Row(r), ds, Com(r))
  /\ tbl' = MkEntry(tbl, Row(r), numecs, ds, JAMSTATE, Total(r), over)
  /\ UNCHANGED <<tnxt, full>>

\* ... or a difference to the proto that is nearest, and a proto, too, if the
\* difference is large.  By then the proto may have lost its slot to it.
UseProto(r) ==
  /\ Compressed(r) /\ ~TooFew(r) /\ ~Unlike(r)
  /\ tbl' = MkEntry(tbl, Without(Row(r), prot.save[Best(r).slot]), numecs, ds,
                    prot.tbl[Best(r).slot], Best(r).diff, 0)
  /\ prot' = Mv2front(IF Best(r).diff * 100 >= Total(r) * NEW_PROTO_DIFF_PERCENTAGE
                      THEN MkProt(prot, Row(r), ds, Com(r)) ELSE prot, Best(r).slot)
  /\ UNCHANGED <<tnxt, full>>

\* A full table has the row as it is: a column for the end of the buffer in
\* front, the negative state where it jams, and no last column if NUL has its
\* own table.
FullRow(r) ==
  /\ scheme = "full" /\ Given(r)
  /\ ds = EobState => r = NoRow
  /\ full' = Append(full, [c \in 0 .. (IF nultrans THEN numecs - 1 ELSE numecs) |->
                             IF c = 0 THEN IF ds = EobState THEN -EobState ELSE EobState
                             ELSE IF Row(r)[c] = 0 THEN -ds ELSE Row(r)[c]])
  /\ UNCHANGED <<tbl, prot, tnxt>>

\* The last row is in.
RowsEnd ==
  /\ pc = "rows" /\ Len(rows) = lastdfa
  /\ pc' = CASE scheme = "compressed" -> "templates"
             [] scheme = "full" -> "done"
             [] scheme = "fast" -> "emit"
  /\ UNCHANGED <<options, rows, tbl, prot, tnxt, placed, full, nul>>

----------------------------------------------------------------------------
(* The templates, the rows that wait, and the jam state                    *)

\* The meta-equivalence classes, as mkeccl() and cre8ecs() make them (module
\* Ecs): classes that no template tells apart have the number of the first.
TransSets == {{c \in Ecs : tnxt[n][c] # 0} : n \in DOMAIN tnxt}
Meta(c) ==
  LET Leader(d) == Min({e \in Ecs : \A T \in TransSets : e \in T <=> d \in T})
  IN  IF c = 0 \/ ~usemecs THEN c
      ELSE Cardinality({d \in 1 .. Leader(c) : Leader(d) = d})
nummecs == Max({Meta(c) : c \in Ecs})

\* cmptmps(), for one template: its row has a column for each meta class.
Cmptmps ==
  /\ pc = "templates" /\ placed < Len(tnxt)
  /\ LET n == placed + 1
         tmp == [m \in 1 .. nummecs |-> tnxt[n][Min({c \in Ecs : Meta(c) = m})]]
         total == Cardinality({m \in 1 .. nummecs : tmp[m] > 0})
     IN  /\ tbl' = MkEntry(tbl, tmp, nummecs, TemplateState(n), JAMSTATE, total, 0)
         /\ placed' = n
  /\ UNCHANGED <<options, pc, rows, prot, tnxt, full, nul>>

\* "Create tables for all the states with only one out-transition", the last first.
OneTransition ==
  /\ pc = "templates" /\ placed = Len(tnxt) /\ tbl.one # <<>>
  /\ LET e == Last(tbl.one)
     IN  tbl' = [Mk1tbl(tbl, e.state, e.sym, e.next, e.def) EXCEPT !.one = Front(@)]
  /\ UNCHANGED <<options, pc, rows, prot, tnxt, placed, full, nul>>

\* mkdeftbl(): the row of the jam state, which is where the end of the buffer
\* is found.
Mkdeftbl ==
  /\ pc = "templates" /\ placed = Len(tnxt) /\ tbl.one = <<>>
  /\ LET jambase == tbl.tblend + 1
         g == Grown(tbl, jambase + numecs + 1)
         own == jambase .. jambase + numecs
     IN  tbl' = [g EXCEPT !.chk = [a \in DOMAIN @ |-> IF a \in own THEN jamstate ELSE @[a]],
                          !.nxt = [a \in DOMAIN @ |-> IF a = jambase THEN EobState
                                                      ELSE IF a \in own THEN 0 ELSE @[a]],
                          !.base[jamstate] = jambase, !.def[jamstate] = 0,
                          !.tblend = jambase + numecs]
  /\ pc' = "emit"
  /\ UNCHANGED <<options, rows, prot, tnxt, placed, full, nul>>

\* gentabs(): the marks become numbers of states and places.
Gentabs ==
  /\ pc = "emit" /\ scheme = "compressed"
  /\ LET templates == {TemplateState(n) : n \in DOMAIN tnxt}
         Def(s) == IF s \in templates \/ tbl.def[s] = JAMSTATE THEN jamstate
                   ELSE IF tbl.def[s] < 0 THEN TemplateState(-tbl.def[s])
                   ELSE tbl.def[s]
         Base(s) == IF s \in States /\ tbl.base[s] = JAMSTATE THEN tbl.base[jamstate]
                    ELSE tbl.base[s]
     IN  tbl' = [tbl EXCEPT
           !.base = [s \in DOMAIN @ |-> Base(s)],
           !.def = [s \in DOMAIN @ |-> IF s \in States \cup templates THEN Def(s) ELSE @[s]],
           !.nxt = [a \in DOMAIN @ |-> IF a > 0 /\ (tbl.chk[a] = 0 \/ @[a] = 0)
                                       THEN jamstate ELSE @[a]]]
  /\ pc' = "done"
  /\ UNCHANGED <<options, rows, prot, tnxt, placed, full, nul>>

----------------------------------------------------------------------------
(* Full speed: every row whole, between the action number of its state and *)
(* the mark for the end of the buffer                                      *)

EOB_POSITION == -1
ACTION_POSITION == -2

\* find_table_space(): both places before the row are free, and so are those
\* that the row needs.
RoomAt(t, row, a) ==
  /\ Free(t, a - 1) /\ Free(t, a)
  /\ \A c \in Ecs : row[c] # 0 => Free(t, a + c)

\* The comparison goes on to the end of chk, past the numecs entries of the
\* row; what is there may turn the place down.
MayBeRefused(t, a) == \E b \in a + numecs + 1 .. t.size - 1 : t.chk[b] # 0

SearchFrom(t, numtrans) ==
  IF numtrans > MAX_XTIONS_FULL_INTERIOR_FIT
  THEN IF t.tblend < 2 THEN 1 ELSE t.tblend - numecs
  ELSE t.firstfree

TableSpace(t, row, numtrans) ==
  LET from == SearchFrom(t, numtrans)
      fits == {a \in from .. Larger(from, t.size) + 1 : RoomAt(t, row, a)}
  IN  {a \in fits : \A b \in fits : b < a => MayBeRefused(t, b)}

\* place_state()
PlaceAt(t, row, statenum, numtrans, a) ==
  LET g == Grown(t, a + numecs + 1)
      own == {a + c : c \in {d \in Ecs : row[d] # 0}}
  IN  [g EXCEPT !.base[statenum] = a,
                !.chk = [b \in DOMAIN @ |-> IF b \in {a - 1, a} THEN 1
                                            ELSE IF b \in own THEN b - a ELSE @[b]],
                !.nxt = [b \in DOMAIN @ |-> IF b \in own THEN row[b - a] ELSE @[b]],
                !.firstfree = IF numtrans <= MAX_XTIONS_FULL_INTERIOR_FIT THEN a + 1 ELSE @,
                !.tblend = Larger(@, a + numecs)]

PlaceState0 ==
  /\ pc = "begin"
  /\ \E a \in TableSpace(tbl, NoRow.to, 0) : tbl' = PlaceAt(tbl, NoRow.to, 0, 0, a)
  /\ pc' = "rows"
  /\ UNCHANGED <<options, rows, prot, tnxt, placed, full, nul>>

PlaceState(r) ==
  /\ scheme = "fast" /\ Given(r)
  /\ \E a \in TableSpace(tbl, r.to, Total(r)) : tbl' = PlaceAt(tbl, r.to, ds, Total(r), a)
  /\ UNCHANGED <<prot, tnxt, full>>

\* genctbl(), mkctbl(): the marks, a state for the end of the buffer behind
\* the table, and offsets in place of the states.  Pairs of yy_verify and
\* yy_nxt; the action of a state is its number.
eobbase == tbl.tblend + 2
EOB_ACTION == lastdfa + 1
Genctbl ==
  /\ pc = "emit" /\ scheme = "fast"
  /\ LET g == Grown(tbl, eobbase + 1)
         starts == {tbl.base[s] : s \in 0 .. lastdfa}
         chk == [a \in DOMAIN g.chk |-> IF a = eobbase THEN 1
                                        ELSE IF a = eobbase - 1 THEN numecs + 1
                                        ELSE IF a \in starts THEN EOB_POSITION
                                        ELSE IF a + 1 \in starts THEN ACTION_POSITION
                                        ELSE g.chk[a]]
         Action(a) == CHOOSE s \in 0 .. lastdfa : tbl.base[s] = a + 1
         Transition(a) == IF a = eobbase THEN 0
                          ELSE IF a = eobbase - 1 THEN EOB_ACTION
                          ELSE IF chk[a] = EOB_POSITION THEN eobbase - a
                          ELSE IF chk[a] = ACTION_POSITION THEN Action(a)
                          ELSE IF chk[a] > numecs \/ chk[a] = 0 THEN 0
                          ELSE tbl.base[g.nxt[a]] - (a - chk[a])
         Verify(a) == IF a < eobbase - 1 /\ chk[a] \notin Ecs THEN 0 ELSE chk[a]
     IN  tbl' = [g EXCEPT !.chk = [a \in DOMAIN @ |-> Verify(a)],
                          !.nxt = [a \in DOMAIN @ |-> Transition(a)]]
  /\ pc' = "done"
  /\ UNCHANGED <<options, rows, prot, tnxt, placed, full, nul>>

Terminated == pc = "done" /\ UNCHANGED vars

\* What lies behind the array of the row, when mkentry() runs past it.
Behind(r) == IF Total(r) = 1 /\ Row(r) = NoRow.to THEN 0 .. lastdfa ELSE {0}

Next ==
  \/ EndOfBufferState
  \/ \E r \in Rows : \/ \E over \in Behind(r) : SmallState(r, over) \/ NewProto(r, over)
                     \/ MkTemplate(r)
                     \/ UseProto(r)
                     \/ FullRow(r)
                     \/ PlaceState(r)
  \/ RowsEnd
  \/ Cmptmps
  \/ OneTransition
  \/ Mkdeftbl
  \/ Gentabs
  \/ PlaceState0
  \/ Genctbl
  \/ Terminated

Spec == Init /\ [][Next]_vars

----------------------------------------------------------------------------
(* The scanner looks the tables up                                         *)

\* gen_next_compressed_state(): follow the defaults to the row that has an
\* entry; in a template, for the meta class.
Lookup(s, c) ==
  LET Hit(p) == tbl.chk[tbl.base[p[1]] + p[2]] = p[1]
      at[n \in 0 .. lastdfa + 2] ==
        IF n = 0 THEN <<s, c>>
        ELSE LET p == at[n - 1]
                 d == tbl.def[p[1]]
             IN  IF Hit(p) THEN p
                 ELSE <<d, IF usemecs /\ d >= TemplateState(1) THEN Meta(p[2]) ELSE p[2]>>
  IN  at[lastdfa + 2]
CompressedNext(s, c) ==
  LET p == Lookup(s, c) IN tbl.nxt[tbl.base[p[1]] + p[2]]

\* gen_NUL_trans(): NUL may have a table of its own, in which a jam is 0.
NextState(s, c) ==
  IF nultrans /\ c = NUL_ec
  THEN IF nul[s] = 0 THEN jamstate ELSE nul[s]
  ELSE CompressedNext(s, c)

\* gen_next_match() for full tables: a jam gives back the state.
FullNext(s, c) == IF nultrans /\ c = NUL_ec THEN IF nul[s] = 0 THEN -s ELSE nul[s]
                  ELSE full[s][c]

\* gen_next_match() for full speed: the place of the next state, or a jam.
FastNext(base, c) ==
  IF tbl.chk[base + c] = c THEN base + tbl.nxt[base + c] ELSE JAMSTATE
FastAction(base) == tbl.nxt[base - 1]

----------------------------------------------------------------------------
(* What must be true of it.                                                *)

AllStates == 0 .. 2 * lastdfa + 1

TblTypeOK ==
  /\ pc \in {"begin", "rows", "templates", "emit", "done"}
  /\ Len(rows) \in 0 .. lastdfa /\ Len(tnxt) \in 0 .. Len(rows) /\ placed \in 0 .. Len(tnxt)
  /\ DOMAIN tbl.chk = 0 .. tbl.size - 1 /\ DOMAIN tbl.nxt = 0 .. tbl.size - 1
  /\ \A a \in DOMAIN tbl.chk : tbl.chk[a] \in AllStates \cup Ecs \cup {numecs + 1}
  /\ \A s \in AllStates : tbl.base[s] \in Nat \cup {JAMSTATE}
  /\ Len(tbl.one) < ONE_STACK_SIZE
  /\ prot.first \in 0 .. MSP - 1 /\ prot.last \in 1 .. MSP - 1

\* The scanner finds in the tables what ntod() put into them: for every state
\* and class the state that follows, a jam where there is none, and for class
\* 0 the state (the action) of the end of the buffer, from where it jams.  An
\* interactive scanner stops before the next character at the states whose base
\* is that of the jam state: these are the states without transitions.
TablesDecode ==
  pc = "done" =>
    /\ scheme = "compressed" =>
         \A s \in States \ {EobState} : tbl.base[s] = tbl.base[jamstate] <=> rows[s] = NoRow.to
    /\ scheme # "fast" =>
         \A s \in States, c \in 0 .. numecs :
           LET Next1 == IF scheme = "full" THEN FullNext(s, c) ELSE NextState(s, c)
               Jam == IF scheme = "full" THEN -s ELSE jamstate
           IN  Next1 = IF s = EobState \/ (c # 0 /\ rows[s][c] = 0) THEN Jam
                       ELSE IF c = 0 THEN EobState ELSE rows[s][c]
    /\ scheme = "fast" =>
         /\ FastAction(eobbase) = EOB_ACTION /\ FastNext(eobbase, 0) = JAMSTATE
         /\ \A s \in States : FastAction(tbl.base[s]) = s
         /\ \A s \in States, c \in 0 .. numecs :
              FastNext(tbl.base[s], c) = IF c = 0 THEN eobbase
                                         ELSE IF rows[s][c] = 0 THEN JAMSTATE
                                         ELSE tbl.base[rows[s][c]]

\* A place of nxt and chk that a state has taken is never given to another.
NothingReclaimed ==
  [][pc' # "done" => \A a \in DOMAIN tbl.chk : tbl.chk[a] # 0 =>
                       tbl'.chk[a] = tbl.chk[a] /\ tbl'.nxt[a] = tbl.nxt[a]]_vars

\* The searches that have no bound of their own stop inside the arrays, and no
\* state can index past the end of the tables that are written.
ReadsStayInside ==
  /\ pc # "done" /\ tbl.tblend > 0 => tbl.firstfree < tbl.size
  /\ pc = "done" /\ scheme # "full" =>
       /\ \A s \in States : tbl.base[s] >= 0
       /\ \A s \in States : \A c \in 0 .. numecs :
            tbl.base[IF scheme = "compressed" THEN Lookup(s, c)[1] ELSE s] + c <= tbl.tblend

\* The queue of protos is one chain, the same in both directions, and each slot
\* in it still holds the row of the state or template it is named for.
ProtosAreCurrent ==
  LET q == Queue(prot)
      RowOf(n) == IF n < 0 THEN tnxt[-n] ELSE Row([to |-> rows[n]])
  IN  /\ \A k, l \in DOMAIN q : q[k] = q[l] => k = l
      /\ q # <<>> => Last(q) = prot.last
      /\ \A k \in 2 .. Len(q) : prot.prev[q[k]] = q[k - 1]
      /\ \A k \in DOMAIN q : prot.save[q[k]] = RowOf(prot.tbl[q[k]])
=============================================================================
