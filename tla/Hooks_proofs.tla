----------------------------- MODULE Hooks_proofs -----------------------------
(***************************************************************************)
(* Proofs about Hooks for any goroutines, entries and numbers of them: a   *)
(* call of Trigger is followed by its own record alone, through the copied *)
(* list and the hooks it has run, and no other step touches that record.   *)
(***************************************************************************)
EXTENDS Hooks, TLAPS

Answers == {"continue", "stop", "error"}

Registered == {convertHookEntry(entry) : entry \in Entries}

\* The types of a call.
CallTyped(c) ==
    /\ c \in [pc : {"idle", "loop", "callback", "command", "done"}, entries : EntryLists,
              i : Nat, shell : Shells, ran : Seq([i : Nat, said : Answers]),
              answer : {"none"} \cup Answers]
    /\ c.pc # "command" => c.shell = NoShell
    /\ c.i \in 1 .. Len(c.entries) + 1

\* The hooks before entry k, and no others, have run in their order, and all but
\* perhaps the last have said continue.
RanBefore(c, k) ==
    /\ {c.ran[n].i : n \in DOMAIN c.ran} = {j \in 1 .. k - 1 : Runs(c.entries[j])}
    /\ \A m, n \in DOMAIN c.ran : m < n => c.ran[m].i < c.ran[n].i
    /\ \A n \in 1 .. Len(c.ran) - 1 : c.ran[n].said = "continue"

LastSaid(c) == IF c.ran = <<>> THEN "continue" ELSE c.ran[Len(c.ran)].said

AtEntry(c) == c.i <= Len(c.entries) /\ Runs(c.entries[c.i])

\* What has run at each point of a call.
CallOrdered(c) ==
    /\ c.pc = "idle" => c = Idle
    /\ c.pc \in {"loop", "callback", "command"} =>
          RanBefore(c, c.i) /\ LastSaid(c) = "continue" /\ c.answer = "none"
    /\ c.pc \in {"callback", "command"} => AtEntry(c)
    /\ c.pc = "done" =>
          /\ c.answer = LastSaid(c)
          /\ \/ c.answer = "continue" /\ RanBefore(c, Len(c.entries) + 1)
             \/ c.answer \in {"stop", "error"} /\ RanBefore(c, c.i + 1) /\ AtEntry(c)

\* The inductive invariant.
IInv ==
    /\ hooks \in EntryLists
    /\ trig = [t \in Triggers |-> trig[t]]
    /\ \A t \in Triggers : CallTyped(trig[t]) /\ CallOrdered(trig[t])
    /\ changes \in 0 .. MaxChanges /\ crashed \in BOOLEAN

-----------------------------------------------------------------------------
(* The lists of entries are the sequences of at most MaxHooks entries.     *)
LEMMA ListsAreSequences ==
    ASSUME HooksAssumption, NEW s
    PROVE  s \in EntryLists <=> s \in Seq(Registered) /\ Len(s) <= MaxHooks
<1>1. ASSUME s \in EntryLists PROVE s \in Seq(Registered) /\ Len(s) <= MaxHooks
  <2>1. PICK n \in 0 .. MaxHooks : s \in [1 .. n -> Registered]
    BY <1>1 DEF EntryLists, Registered
  <2>. QED
    BY <2>1 DEF HooksAssumption
<1>2. ASSUME s \in Seq(Registered), Len(s) <= MaxHooks PROVE s \in EntryLists
  <2>1. s \in [1 .. Len(s) -> Registered] /\ Len(s) \in 0 .. MaxHooks
    BY <1>2 DEF HooksAssumption
  <2>. QED
    BY <2>1 DEF EntryLists, Registered
<1>. QED
  BY <1>1, <1>2

LEMMA EntryAdded ==
    ASSUME HooksAssumption, NEW s \in EntryLists, NEW entry \in Entries, Len(s) < MaxHooks
    PROVE  Append(s, convertHookEntry(entry)) \in EntryLists
<1>1. s \in Seq(Registered) /\ convertHookEntry(entry) \in Registered
  BY ListsAreSequences DEF Registered
<1>2. Append(s, convertHookEntry(entry)) \in Seq(Registered)
  BY <1>1
<1>3. Len(Append(s, convertHookEntry(entry))) <= MaxHooks
  BY <1>1 DEF HooksAssumption
<1>. QED
  BY <1>2, <1>3, ListsAreSequences

LEMMA EmptyList ==
    ASSUME HooksAssumption
    PROVE  <<>> \in EntryLists
<1>1. <<>> \in Seq(Registered) /\ Len(<<>>) <= MaxHooks
  BY DEF HooksAssumption
<1>. QED
  BY <1>1, ListsAreSequences

LEMMA InitInv ==
    ASSUME HooksAssumption, Init
    PROVE  IInv
<1>1. <<>> \in EntryLists
  BY EmptyList
<1>2. CallTyped(Idle) /\ CallOrdered(Idle)
  BY <1>1 DEF Idle, NoShell, Shells, ExitCodes, Printed, Answers, CallTyped, CallOrdered
<1>3. /\ hooks = <<>> /\ trig = [t \in Triggers |-> Idle] /\ crashed = FALSE
      /\ changes \in 0 .. MaxChanges
  BY DEF Init, HooksAssumption
<1>. QED
  BY <1>1, <1>2, <1>3 DEF IInv

LEMMA InvSuffices ==
    ASSUME HooksAssumption, IInv
    PROVE  TypeOK /\ HooksInOrder
<1>1. ASSUME NEW t \in Triggers
      PROVE  /\ trig[t].pc \in {"idle", "loop", "callback", "command", "done"}
             /\ trig[t].entries \in EntryLists
             /\ trig[t].i \in 1 .. MaxHooks + 1
             /\ trig[t].shell \in Shells
             /\ trig[t].answer \in {"none", "continue", "stop", "error"}
             /\ trig[t].pc # "command" => trig[t].shell = NoShell
  <2>1. CallTyped(trig[t])
    BY DEF IInv
  <2>2. Len(trig[t].entries) <= MaxHooks /\ Len(trig[t].entries) \in Nat
    BY <2>1, ListsAreSequences DEF CallTyped
  <2>. QED
    BY <2>1, <2>2 DEF CallTyped, Answers, HooksAssumption
<1>2. ASSUME NEW t \in Triggers
      PROVE  LET c == trig[t]
                 AllRan(upTo) == {c.ran[n].i : n \in DOMAIN c.ran} = {i \in 1 .. upTo : Runs(c.entries[i])}
             IN /\ AllRan(IF c.ran = <<>> THEN 0 ELSE c.ran[Len(c.ran)].i)
                /\ \A m, n \in DOMAIN c.ran : m < n => c.ran[m].i < c.ran[n].i
                /\ \A n \in 1 .. Len(c.ran) - 1 : c.ran[n].said = "continue"
                /\ c.answer = "continue" => AllRan(Len(c.entries))
                /\ c.pc = "done" /\ c.ran # <<>> => c.answer = c.ran[Len(c.ran)].said
                /\ c.answer \in {"stop", "error"} => c.ran # <<>>
  <2>. DEFINE c == trig[t]
  <2>1. CallTyped(c) /\ CallOrdered(c)
    BY DEF IInv
  <2>2. /\ c.ran \in Seq([i : Nat, said : Answers]) /\ Len(c.entries) \in Nat /\ c.i \in Nat
        /\ c.pc \in {"idle", "loop", "callback", "command", "done"}
    BY <2>1, ListsAreSequences DEF CallTyped
  <2>. HIDE DEF c
  <2>3. PICK k \in Nat : RanBefore(c, k)
    <3>1. CASE c.pc = "idle"
      BY <2>1, <3>1 DEF CallOrdered, Idle, RanBefore
    <3>2. CASE c.pc # "idle"
      BY <2>1, <2>2, <3>2 DEF CallOrdered
    <3>. QED
      BY <3>1, <3>2
  <2>4. {c.ran[n].i : n \in DOMAIN c.ran}
           = {i \in 1 .. (IF c.ran = <<>> THEN 0 ELSE c.ran[Len(c.ran)].i) : Runs(c.entries[i])}
    <3>1. CASE c.ran = <<>>
      BY <3>1
    <3>2. CASE c.ran # <<>>
      <4>. DEFINE l == c.ran[Len(c.ran)].i
      <4>1. /\ Len(c.ran) \in DOMAIN c.ran /\ Len(c.ran) \in Nat
            /\ \A n \in DOMAIN c.ran : n \in Nat /\ n <= Len(c.ran) /\ c.ran[n].i \in 1 .. k - 1
        <5>1. DOMAIN c.ran = 1 .. Len(c.ran) /\ Len(c.ran) \in Nat \ {0}
          BY <2>2, <3>2
        <5>. QED
          BY <2>3, <5>1 DEF RanBefore
      <4>2. l \in 1 .. k - 1
        BY <4>1
      <4>3. ASSUME NEW n \in DOMAIN c.ran PROVE c.ran[n].i <= l
        <5>1. CASE n = Len(c.ran)
          BY <4>2, <5>1
        <5>2. CASE n < Len(c.ran)
          BY <2>3, <4>1, <4>2, <5>2 DEF RanBefore
        <5>. QED
          BY <4>1, <5>1, <5>2
      <4>. HIDE DEF l
      <4>4. {c.ran[n].i : n \in DOMAIN c.ran} = {i \in 1 .. l : Runs(c.entries[i])}
        BY <2>3, <4>1, <4>2, <4>3 DEF RanBefore
      <4>. QED
        BY <3>2, <4>4 DEF l
    <3>. QED
      BY <3>1, <3>2
  <2>5. c.answer = "continue" => {c.ran[n].i : n \in DOMAIN c.ran} = {i \in 1 .. Len(c.entries) : Runs(c.entries[i])}
    <3>1. ASSUME c.answer = "continue" PROVE RanBefore(c, Len(c.entries) + 1)
      BY <2>1, <2>2, <3>1 DEF CallOrdered, Idle
    <3>2. Len(c.entries) + 1 - 1 = Len(c.entries)
      BY <2>2
    <3>. QED
      BY <3>1, <3>2 DEF RanBefore
  <2>6. /\ c.pc = "done" /\ c.ran # <<>> => c.answer = c.ran[Len(c.ran)].said
        /\ c.answer \in {"stop", "error"} => c.ran # <<>>
    BY <2>1, <2>2 DEF CallOrdered, LastSaid, Idle
  <2>. QED
    BY <2>3, <2>4, <2>5, <2>6 DEF RanBefore, c
<1>3. TypeOK
  BY <1>1 DEF IInv, TypeOK
<1>4. HooksInOrder
  BY <1>2 DEF HooksInOrder
<1>. QED
  BY <1>3, <1>4

-----------------------------------------------------------------------------
(* The steps.  A step of the manager leaves the calls alone, a step of a    *)
(* call replaces its record.                                               *)

LEMMA CallStep ==
    ASSUME IInv, NEW t \in Triggers, NEW r, Goto(t, r), crashed' \in BOOLEAN,
           CallTyped(r), CallOrdered(r)
    PROVE  IInv'
<1>1. trig' = [u \in Triggers |-> IF u = t THEN r ELSE trig[u]] /\ UNCHANGED <<hooks, changes>>
  BY DEF Goto, IInv
<1>2. \A u \in Triggers : trig'[u] = IF u = t THEN r ELSE trig[u]
  BY <1>1
<1>3. ASSUME NEW u \in Triggers PROVE CallTyped(trig'[u]) /\ CallOrdered(trig'[u])
  BY <1>2 DEF IInv
<1>. QED
  BY <1>1, <1>3 DEF IInv

\* Only the shell has changed.
LEMMA ShellOnly ==
    ASSUME NEW c, CallTyped(c), CallOrdered(c), c.pc = "command",
           NEW shell \in Shells
    PROVE  CallTyped([c EXCEPT !.shell = shell]) /\ CallOrdered([c EXCEPT !.shell = shell])
<1>. DEFINE r == [c EXCEPT !.shell = shell]
<1>1. /\ r.pc = c.pc /\ r.entries = c.entries /\ r.i = c.i /\ r.ran = c.ran /\ r.answer = c.answer
      /\ r.shell = shell
      /\ r \in [pc : {"idle", "loop", "callback", "command", "done"}, entries : EntryLists,
                i : Nat, shell : Shells, ran : Seq([i : Nat, said : Answers]),
                answer : {"none"} \cup Answers]
  BY DEF CallTyped
<1>. HIDE DEF r
<1>. QED
  BY <1>1 DEF CallTyped, CallOrdered, RanBefore, LastSaid, AtEntry

\* The record of a call after a hook has said something.
After(c, said) ==
    LET r == [c EXCEPT !.ran = Append(@, [i |-> c.i, said |-> said]), !.shell = NoShell]
    IN  IF said = "continue" THEN [r EXCEPT !.pc = "loop", !.i = @ + 1]
                             ELSE [r EXCEPT !.pc = "done", !.answer = said]

LEMMA NoShellTyped == NoShell \in Shells
BY DEF NoShell, Shells, ExitCodes, Printed

LEMMA HookRan ==
    ASSUME HooksAssumption, NEW c, CallTyped(c), CallOrdered(c),
           c.pc \in {"loop", "callback", "command"}, AtEntry(c), NEW said \in Answers
    PROVE  CallTyped(After(c, said)) /\ CallOrdered(After(c, said))
<1>. DEFINE e == [i |-> c.i, said |-> said]
            r == After(c, said)
<1>1. /\ Len(c.entries) \in Nat /\ c.i \in 1 .. Len(c.entries) /\ c.ran \in Seq([i : Nat, said : Answers])
      /\ RanBefore(c, c.i) /\ LastSaid(c) = "continue" /\ c.answer = "none" /\ Runs(c.entries[c.i])
  BY ListsAreSequences DEF CallTyped, CallOrdered, AtEntry
<1>2. /\ r.pc = (IF said = "continue" THEN "loop" ELSE "done") /\ r.entries = c.entries
      /\ r.i = (IF said = "continue" THEN c.i + 1 ELSE c.i) /\ r.ran = Append(c.ran, e)
      /\ r.answer = (IF said = "continue" THEN "none" ELSE said) /\ r.shell = NoShell
      /\ r \in [pc : {"idle", "loop", "callback", "command", "done"}, entries : EntryLists,
                i : Nat, shell : Shells, ran : Seq([i : Nat, said : Answers]),
                answer : {"none"} \cup Answers]
  <2>1. Append(c.ran, e) \in Seq([i : Nat, said : Answers])
    BY <1>1
  <2>2. CASE said = "continue"
    <3>1. r = [pc |-> "loop", entries |-> c.entries, i |-> c.i + 1, shell |-> NoShell,
               ran |-> Append(c.ran, e), answer |-> c.answer]
      BY <2>2 DEF CallTyped, After
    <3>2. c.i + 1 \in Nat /\ c.entries \in EntryLists
      BY <1>1 DEF CallTyped
    <3>. HIDE DEF e, r
    <3>. QED
      BY <1>1, <2>1, <2>2, <3>1, <3>2, NoShellTyped
  <2>3. CASE said # "continue"
    BY <1>1, <2>1, <2>3, NoShellTyped DEF CallTyped, After, Answers
  <2>. QED
    BY <2>2, <2>3
<1>3. /\ Len(c.ran) \in Nat /\ DOMAIN r.ran = 1 .. Len(c.ran) + 1 /\ DOMAIN c.ran = 1 .. Len(c.ran)
      /\ Len(r.ran) = Len(c.ran) + 1
      /\ r.ran[Len(c.ran) + 1] = e /\ e.i = c.i /\ e.said = said
      /\ \A n \in DOMAIN c.ran : r.ran[n] = c.ran[n]
  BY SMTT(30), <1>1, <1>2
<1>. HIDE DEF r, e
<1>4. \A n \in DOMAIN r.ran : n = Len(c.ran) + 1 \/ n \in DOMAIN c.ran
  BY <1>3
<1>5. RanBefore(r, c.i + 1)
  <2>1. {r.ran[n].i : n \in DOMAIN r.ran} = {c.ran[n].i : n \in DOMAIN c.ran} \cup {c.i}
    BY SMTT(30), <1>3, <1>4
  <2>2. \A j \in 1 .. c.i : j = c.i \/ j \in 1 .. c.i - 1
    BY <1>1
  <2>3. {j \in 1 .. c.i : Runs(c.entries[j])} = {j \in 1 .. c.i - 1 : Runs(c.entries[j])} \cup {c.i}
    BY <1>1, <2>2
  <2>4. {r.ran[n].i : n \in DOMAIN r.ran} = {j \in 1 .. (c.i + 1) - 1 : Runs(r.entries[j])}
    <3>1. (c.i + 1) - 1 = c.i
      BY <1>1
    <3>2. {c.ran[n].i : n \in DOMAIN c.ran} = {j \in 1 .. c.i - 1 : Runs(c.entries[j])}
      BY <1>1 DEF RanBefore
    <3>. QED
      BY <1>2, <2>1, <2>3, <3>1, <3>2
  <2>5. ASSUME NEW m \in DOMAIN r.ran, NEW n \in DOMAIN r.ran, m < n
        PROVE  r.ran[m].i < r.ran[n].i
    <3>1. m \in DOMAIN c.ran
      BY <1>3, <1>4, <2>5
    <3>2. CASE n \in DOMAIN c.ran
      BY <1>1, <1>3, <2>5, <3>1, <3>2 DEF RanBefore
    <3>3. CASE n = Len(c.ran) + 1
      <4>1. c.ran[m].i \in 1 .. c.i - 1
        BY <1>1, <3>1 DEF RanBefore
      <4>2. r.ran[m].i = c.ran[m].i /\ r.ran[n].i = c.i
        BY <1>3, <3>1, <3>3
      <4>. QED
        BY <1>1, <4>1, <4>2
    <3>. QED
      BY <1>4, <3>2, <3>3
  <2>6. ASSUME NEW n \in 1 .. Len(r.ran) - 1
        PROVE  r.ran[n].said = "continue"
    <3>1. n \in DOMAIN c.ran /\ n \in Nat
      BY <1>3
    <3>2. n \in 1 .. Len(c.ran) - 1 \/ n = Len(c.ran)
      BY <1>3, <3>1
    <3>3. n = Len(c.ran) => c.ran[n].said = "continue"
      BY <1>1, <3>1 DEF LastSaid
    <3>. QED
      BY <1>1, <1>3, <3>1, <3>2, <3>3 DEF RanBefore
  <2>. QED
    BY <2>4, <2>5, <2>6 DEF RanBefore
<1>6. LastSaid(r) = said
  BY <1>3 DEF LastSaid
<1>7. CallTyped(r)
  BY <1>1, <1>2 DEF CallTyped
<1>8. CASE said = "continue"
  <2>1. r.pc = "loop" /\ r.i = c.i + 1 /\ r.answer = "none"
    BY <1>2, <1>8
  <2>2. RanBefore(r, r.i)
    BY <1>5, <2>1
  <2>3. CallOrdered(r)
    BY <1>6, <1>8, <2>1, <2>2 DEF CallOrdered
  <2>. QED
    BY <1>7, <2>3 DEF r
<1>9. CASE said # "continue"
  <2>1. r.pc = "done" /\ r.i = c.i /\ r.answer = said /\ said \in {"stop", "error"}
    BY <1>2, <1>9 DEF Answers
  <2>2. RanBefore(r, r.i + 1)
    BY <1>5, <2>1
  <2>3. AtEntry(r)
    BY <1>1, <1>2, <2>1 DEF AtEntry
  <2>4. CallOrdered(r)
    BY <1>6, <2>1, <2>2, <2>3 DEF CallOrdered
  <2>. QED
    BY <1>7, <2>4 DEF r
<1>. QED
  BY <1>8, <1>9

\* Trigger copies the list, and goes through it.
LEMMA ListStep ==
    ASSUME HooksAssumption, IInv, NEW t \in Triggers,
           Trigger(t) \/ Skip(t) \/ CallCallback(t) \/ StartCommand(t) \/ TriggerReturns(t)
    PROVE  IInv'
<1>. DEFINE c == trig[t]
<1>1. CallTyped(c) /\ CallOrdered(c) /\ crashed \in BOOLEAN /\ hooks \in EntryLists
  BY DEF IInv
<1>2. /\ Len(c.entries) \in Nat /\ c.i \in 1 .. Len(c.entries) + 1 /\ Len(hooks) \in Nat
  BY <1>1, ListsAreSequences DEF CallTyped
<1>3. CASE Trigger(t)
  <2>. DEFINE r == [c EXCEPT !.pc = "loop", !.entries = hooks]
  <2>1. c = Idle /\ Goto(t, r) /\ UNCHANGED crashed
    BY <1>1, <1>3 DEF Trigger, CallOrdered
  <2>2. /\ r.pc = "loop" /\ r.entries = hooks /\ r.i = 1 /\ r.ran = <<>> /\ r.answer = "none"
        /\ r.shell = NoShell
        /\ r \in [pc : {"idle", "loop", "callback", "command", "done"}, entries : EntryLists,
                  i : Nat, shell : Shells, ran : Seq([i : Nat, said : Answers]),
                  answer : {"none"} \cup Answers]
    <3>1. c.i = 1 /\ c.ran = <<>> /\ c.answer = "none" /\ c.shell = NoShell
      BY <2>1 DEF Idle
    <3>. QED
      BY <1>1, <3>1 DEF CallTyped
  <2>. HIDE DEF r
  <2>3. CallTyped(r)
    BY <1>1, <1>2, <2>2, NoShellTyped DEF CallTyped
  <2>4. CallOrdered(r)
    BY <2>2 DEF CallOrdered, RanBefore, LastSaid
  <2>. QED
    BY <1>1, <2>1, <2>3, <2>4, CallStep
<1>4. CASE Skip(t)
  <2>. DEFINE r == [c EXCEPT !.i = c.i + 1]
  <2>1. /\ c.pc = "loop" /\ c.i <= Len(c.entries) /\ ~Runs(c.entries[c.i])
        /\ Goto(t, r) /\ UNCHANGED crashed
    BY <1>4 DEF Skip, InLoop, Entry
  <2>2. /\ r.pc = c.pc /\ r.entries = c.entries /\ r.i = c.i + 1 /\ r.ran = c.ran /\ r.answer = c.answer
        /\ r.shell = c.shell
        /\ r \in [pc : {"idle", "loop", "callback", "command", "done"}, entries : EntryLists,
                  i : Nat, shell : Shells, ran : Seq([i : Nat, said : Answers]),
                  answer : {"none"} \cup Answers]
    BY <1>1 DEF CallTyped
  <2>. HIDE DEF r
  <2>3. CallTyped(r)
    BY <1>1, <1>2, <2>1, <2>2 DEF CallTyped
  <2>4. RanBefore(r, r.i)
    <3>1. RanBefore(c, c.i)
      BY <1>1, <2>1 DEF CallOrdered
    <3>2. (c.i + 1) - 1 = c.i /\ \A j \in 1 .. c.i : j = c.i \/ j \in 1 .. c.i - 1
      BY <1>2
    <3>3. {j \in 1 .. (c.i + 1) - 1 : Runs(c.entries[j])} = {j \in 1 .. c.i - 1 : Runs(c.entries[j])}
      BY <1>2, <2>1, <3>2
    <3>. QED
      BY <2>2, <3>1, <3>3 DEF RanBefore
  <2>5. CallOrdered(r)
    BY <1>1, <2>1, <2>2, <2>4 DEF CallOrdered, LastSaid
  <2>. QED
    BY <1>1, <2>1, <2>3, <2>5, CallStep
<1>5. CASE CallCallback(t)
  <2>. DEFINE r == [c EXCEPT !.pc = "callback"]
  <2>1. /\ c.pc = "loop" /\ c.i <= Len(c.entries) /\ Runs(c.entries[c.i])
        /\ Goto(t, r) /\ UNCHANGED crashed
    BY <1>5 DEF CallCallback, InLoop, Entry
  <2>2. /\ r.pc = "callback" /\ r.entries = c.entries /\ r.i = c.i /\ r.ran = c.ran /\ r.answer = c.answer
        /\ r.shell = c.shell
        /\ r \in [pc : {"idle", "loop", "callback", "command", "done"}, entries : EntryLists,
                  i : Nat, shell : Shells, ran : Seq([i : Nat, said : Answers]),
                  answer : {"none"} \cup Answers]
    BY <1>1 DEF CallTyped
  <2>. HIDE DEF r
  <2>3. CallTyped(r)
    BY <1>1, <2>1, <2>2 DEF CallTyped
  <2>4. CallOrdered(r)
    BY <1>1, <2>1, <2>2 DEF CallOrdered, RanBefore, LastSaid, AtEntry
  <2>. QED
    BY <1>1, <2>1, <2>3, <2>4, CallStep
<1>6. CASE StartCommand(t)
  <2>. DEFINE shell == [NoShell EXCEPT !.running = TRUE]
              r == [c EXCEPT !.pc = "command", !.shell = shell]
  <2>1. /\ c.pc = "loop" /\ c.i <= Len(c.entries) /\ Runs(c.entries[c.i])
        /\ Goto(t, r) /\ UNCHANGED crashed
    BY <1>6 DEF StartCommand, InLoop, Entry
  <2>2. shell \in Shells
    BY DEF NoShell, Shells, ExitCodes, Printed
  <2>. HIDE DEF shell
  <2>3. /\ r.pc = "command" /\ r.entries = c.entries /\ r.i = c.i /\ r.ran = c.ran /\ r.answer = c.answer
        /\ r \in [pc : {"idle", "loop", "callback", "command", "done"}, entries : EntryLists,
                  i : Nat, shell : Shells, ran : Seq([i : Nat, said : Answers]),
                  answer : {"none"} \cup Answers]
    BY <1>1, <2>2 DEF CallTyped
  <2>. HIDE DEF r
  <2>4. CallTyped(r)
    BY <1>1, <2>1, <2>3 DEF CallTyped
  <2>5. CallOrdered(r)
    BY <1>1, <2>1, <2>3 DEF CallOrdered, RanBefore, LastSaid, AtEntry
  <2>. QED
    BY <1>1, <2>1, <2>4, <2>5, CallStep
<1>7. CASE TriggerReturns(t)
  <2>. DEFINE r == [c EXCEPT !.pc = "done", !.answer = "continue"]
  <2>1. c.pc = "loop" /\ c.i > Len(c.entries) /\ Goto(t, r) /\ UNCHANGED crashed
    BY <1>7 DEF TriggerReturns
  <2>2. /\ r.pc = "done" /\ r.entries = c.entries /\ r.i = c.i /\ r.ran = c.ran /\ r.answer = "continue"
        /\ r.shell = c.shell
        /\ r \in [pc : {"idle", "loop", "callback", "command", "done"}, entries : EntryLists,
                  i : Nat, shell : Shells, ran : Seq([i : Nat, said : Answers]),
                  answer : {"none"} \cup Answers]
    BY <1>1 DEF CallTyped, Answers
  <2>3. c.i = Len(c.entries) + 1
    BY <1>2, <2>1
  <2>. HIDE DEF r
  <2>4. CallTyped(r)
    BY <1>1, <2>1, <2>2 DEF CallTyped
  <2>5. CallOrdered(r)
    BY <1>1, <2>1, <2>2, <2>3 DEF CallOrdered, RanBefore, LastSaid
  <2>. QED
    BY <1>1, <2>1, <2>4, <2>5, CallStep
<1>. QED
  BY <1>3, <1>4, <1>5, <1>6, <1>7

\* A hook has returned, one way or another.
LEMMA HookReturns ==
    ASSUME HooksAssumption, IInv, NEW t \in Triggers,
           CallbackReturns(t) \/ StartFails(t) \/ RunReturns(t)
    PROVE  IInv'
<1>. DEFINE c == trig[t]
<1>1. CallTyped(c) /\ CallOrdered(c) /\ crashed \in BOOLEAN
  BY DEF IInv
<1>2. \A said : Said(t, said) => Goto(t, After(c, said))
  BY DEF Said, After
<1>3. c.pc \in {"loop", "callback", "command"} /\ AtEntry(c) /\ UNCHANGED crashed
  BY <1>1 DEF CallbackReturns, StartFails, RunReturns, InLoop, Entry, CallOrdered, AtEntry
<1>4. \E said \in Answers : Said(t, said)
  <2>1. CASE CallbackReturns(t) \/ StartFails(t)
    BY <2>1 DEF CallbackReturns, StartFails, Answers
  <2>2. CASE RunReturns(t)
    <3>1. \A printed : \A code \in ExitCodes : OutputOf(code, printed) \in Answers
      BY DEF ExitCodes, OutputOf, parseSuccessOutput, Answers
    <3>2. c.shell.code \in ExitCodes
      BY <1>1 DEF CallTyped, Shells
    <3>. QED
      BY <2>2, <3>1, <3>2 DEF RunReturns, Answers
  <2>. QED
    BY <2>1, <2>2
<1>5. PICK said \in Answers : Said(t, said)
  BY <1>4
<1>6. CallTyped(After(c, said)) /\ CallOrdered(After(c, said))
  BY <1>1, <1>3, HookRan
<1>. QED
  BY <1>1, <1>2, <1>3, <1>5, <1>6, CallStep

\* The command: a shell runs only while Trigger waits for it.
LEMMA ShellStep ==
    ASSUME HooksAssumption, IInv, NEW t \in Triggers, ContextDone(t) \/ CommandStep(t)
    PROVE  IInv'
<1>. DEFINE c == trig[t]
<1>1. CallTyped(c) /\ CallOrdered(c) /\ crashed \in BOOLEAN
  BY DEF IInv
<1>2. c.pc = "command" /\ UNCHANGED crashed
  <2>1. NoShell.running = FALSE /\ NoShell.children = FALSE
    BY DEF NoShell
  <2>2. c.shell.running \/ c.shell.children => c.pc = "command"
    BY <1>1, <2>1 DEF CallTyped
  <2>3. UNCHANGED crashed /\ (c.pc = "command" \/ c.shell.running \/ c.shell.children)
    BY DEF ContextDone, CommandStep, ShellSpawns, ShellExits, ShellKilled, ChildrenEnd
  <2>. QED
    BY <2>2, <2>3
<1>3. \E shell \in Shells : Goto(t, [c EXCEPT !.shell = shell])
  BY <1>1 DEF ContextDone, CommandStep, ShellSpawns, ShellExits, ShellKilled, ChildrenEnd,
     CallTyped, Shells
<1>4. PICK shell \in Shells : Goto(t, [c EXCEPT !.shell = shell])
  BY <1>3
<1>. QED
  BY <1>1, <1>2, <1>4, ShellOnly, CallStep

LEMMA NextInv ==
    ASSUME HooksAssumption, IInv, [Next]_vars
    PROVE  IInv'
<1>1. CASE UNCHANGED vars
  BY <1>1 DEF vars, IInv
<1>2. CASE \E entry \in Entries : Register(entry)
  BY <1>2, EntryAdded DEF Register, IInv, HooksAssumption
<1>3. CASE Clear
  <2>1. <<>> \in EntryLists
    BY EmptyList
  <2>. QED
    BY <1>3, <2>1 DEF Clear, IInv, HooksAssumption
<1>4. CASE \E t \in Triggers : TriggerStep(t) \/ ContextDone(t) \/ CommandStep(t)
  BY <1>4, ListStep, HookReturns, ShellStep DEF TriggerStep
<1>5. CASE \E t \in Triggers : CallbackReturnsNil(t)
  BY <1>5 DEF CallbackReturnsNil, IInv
<1>. QED
  BY <1>1, <1>2, <1>3, <1>4, <1>5 DEF Next

(* The call of Trigger, its copy and what has run of it: the invariant that *)
(* the theorems below rest on.                                             *)
THEOREM Invariant ==
    ASSUME HooksAssumption
    PROVE  Spec => []IInv
<1>1. Init => IInv
  BY InitInv
<1>2. IInv /\ [Next]_vars => IInv'
  BY NextInv
<1>. QED
  BY <1>1, <1>2, PTL DEF Spec

(* Every variable of the hooks, and every call of Trigger with its command, *)
(* has its type; a shell runs only while its Trigger waits for it.         *)
THEOREM HooksTypeCorrect ==
    ASSUME HooksAssumption
    PROVE  Spec => []TypeOK
<1>1. IInv => TypeOK
  BY InvSuffices
<1>. QED
  BY <1>1, Invariant, PTL

(* Trigger: the hooks that were registered for the tool when it began run  *)
(* in their order, each once, none left out, until one does not say        *)
(* continue, whatever is registered and cleared meanwhile.                 *)
THEOREM HooksRunInOrder ==
    ASSUME HooksAssumption
    PROVE  Spec => []HooksInOrder
<1>1. IInv => HooksInOrder
  BY InvSuffices
<1>. QED
  BY <1>1, Invariant, PTL
=============================================================================
