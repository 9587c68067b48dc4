-------------------------- MODULE NameServerProofs --------------------------
(***************************************************************************)
(* The name server implements the directory, for every set of callers and  *)
(* names, every length of the table and of the arena.                      *)
(***************************************************************************)
EXTENDS NameServer, FiniteSetTheorems, SequenceTheorems, TLAPS

Entry == [name : Name, tid : Task]
CallRecords == [at : {"none"}] \cup [at : {"sent", "back"}, kind : Kinds, name : Name, code : Int]

\* No two entries have the same name: what makes the first entry the only one.
Unique(table) == \A i, j \in DOMAIN table : table[i].name = table[j].name => i = j

NamesIn(table) == {n \in Name : Known(table, n)}

NType == /\ names \in Seq(Entry) /\ index \in Nat
         /\ inbox \in Seq(Task)
         /\ call \in [Task -> CallRecords]
         /\ state \in {"running", "exited", "halted"}

\* A task waits in the inbox once, and only while the server runs and its call is under way.
InboxSound == state = "running" =>
                 /\ \A k \in DOMAIN inbox : call[inbox[k]].at = "sent"
                 /\ \A k, l \in DOMAIN inbox : inbox[k] = inbox[l] => k = l

\* The table is full exactly when so many names are bound.
Counted == /\ IsFiniteSet(NamesIn(names))
           /\ Cardinality(NamesIn(names)) = Len(names)

NInv == NType /\ Unique(names) /\ InboxSound /\ Counted

-----------------------------------------------------------------------------
(* Looking up in a table without duplicates.                               *)

LEMMA FoundAt ==
  ASSUME NEW table \in Seq(Entry), Unique(table), NEW i \in DOMAIN table
  PROVE  /\ Known(table, table[i].name)
         /\ Find(table, table[i].name) = i
         /\ Lookup(table, table[i].name) = table[i].tid
  <1> DEFINE n == table[i].name
  <1> DEFINE Is(k) == table[k].name = n /\ \A j \in 1 .. k - 1 : table[j].name # n
  <1>1. DOMAIN table = 1 .. Len(table) /\ Len(table) \in Nat
    OBVIOUS
  <1>2. Is(i)
    <2>1. ASSUME NEW j \in 1 .. i - 1 PROVE table[j].name # n
      <3>1. j \in DOMAIN table /\ j # i
        BY <1>1
      <3> QED BY <3>1 DEF Unique
    <2> QED BY <2>1
  <1>3. \A k \in DOMAIN table : Is(k) => k = i
    BY DEF Unique
  <1>4. Find(table, n) = CHOOSE k \in DOMAIN table : Is(k)
    BY DEF Find
  <1>5. Find(table, n) = i
    <2> HIDE DEF Is
    <2> QED BY <1>2, <1>3, <1>4, Zenon
  <1>6. Known(table, n)
    BY DEF Known
  <1> QED BY <1>5, <1>6 DEF Lookup

LEMMA FoundName ==
  ASSUME NEW table \in Seq(Entry), Unique(table), NEW n, Known(table, n)
  PROVE  /\ Find(table, n) \in DOMAIN table
         /\ table[Find(table, n)].name = n
  <1>1. PICK i \in DOMAIN table : table[i].name = n
    BY DEF Known
  <1> QED BY <1>1, FoundAt

\* A new entry binds its name and no other.
LEMMA AppendLookup ==
  ASSUME NEW table \in Seq(Entry), Unique(table), NEW e \in Entry, ~ Known(table, e.name)
  PROVE  LET new == Append(table, e) IN
         /\ new \in Seq(Entry) /\ Unique(new)
         /\ NamesIn(new) = NamesIn(table) \cup {e.name}
         /\ \A m \in Name : Lookup(new, m) = IF m = e.name THEN e.tid ELSE Lookup(table, m)
  <1> DEFINE new == Append(table, e)
  <1>1. /\ new \in Seq(Entry) /\ Len(new) = Len(table) + 1
        /\ \A k \in 1 .. Len(table) : new[k] = table[k]
        /\ new[Len(table) + 1] = e
        /\ DOMAIN new = 1 .. Len(table) + 1 /\ DOMAIN table = 1 .. Len(table)
        /\ Len(table) \in Nat
    BY AppendProperties
  <1> HIDE DEF new
  <1>2. \A k \in DOMAIN table : table[k].name # e.name
    BY DEF Known
  <1>3. Unique(new)
    BY <1>1, <1>2 DEF Unique
  <1>4. \A k \in DOMAIN table : k \in DOMAIN new /\ new[k] = table[k]
    BY <1>1
  <1>5. Len(table) + 1 \in DOMAIN new
    BY <1>1
  <1>6. \A m : Known(new, m) <=> (Known(table, m) \/ m = e.name)
    BY <1>1, <1>4, <1>5 DEF Known
  <1>7. NamesIn(new) = NamesIn(table) \cup {e.name}
    BY <1>6 DEF NamesIn, Entry
  <1>8. ASSUME NEW m \in Name
        PROVE  Lookup(new, m) = IF m = e.name THEN e.tid ELSE Lookup(table, m)
    <2>1. CASE m = e.name
      BY <2>1, <1>1, <1>3, <1>5, FoundAt
    <2>2. CASE m # e.name /\ Known(table, m)
      <3>1. PICK k \in DOMAIN table : table[k].name = m
        BY <2>2 DEF Known
      <3>2. Lookup(table, m) = table[k].tid
        BY <3>1, FoundAt
      <3>3. Lookup(new, m) = new[k].tid
        BY <3>1, <1>1, <1>3, <1>4, FoundAt
      <3> QED BY <2>2, <3>1, <3>2, <3>3, <1>4
    <2>3. CASE m # e.name /\ ~ Known(table, m)
      BY <2>3, <1>6 DEF Lookup
    <2> QED BY <2>1, <2>2, <2>3
  <1> QED BY <1>1, <1>3, <1>7, <1>8 DEF new

LEMMA EntryReplaced ==
  ASSUME NEW table \in Seq(Entry), NEW f \in DOMAIN table, NEW e \in Entry
  PROVE  LET new == [table EXCEPT ![f] = e] IN
         /\ new \in Seq(Entry) /\ Len(new) = Len(table) /\ DOMAIN new = DOMAIN table
         /\ new[f] = e /\ \A k \in DOMAIN table \ {f} : new[k] = table[k]
  OBVIOUS

\* An entry rebound binds its name to another task and no other name.
LEMMA RebindLookup ==
  ASSUME NEW table \in Seq(Entry), Unique(table), NEW n \in Name, Known(table, n), NEW t \in Task
  PROVE  LET new == Rebind(table, n, t) IN
         /\ new \in Seq(Entry) /\ Unique(new) /\ Len(new) = Len(table)
         /\ NamesIn(new) = NamesIn(table)
         /\ \A m \in Name : Lookup(new, m) = IF m = n THEN t ELSE Lookup(table, m)
  <1> DEFINE f == Find(table, n)
  <1> DEFINE new == Rebind(table, n, t)
  <1>1. f \in DOMAIN table /\ table[f].name = n
    BY FoundName
  <1> HIDE DEF f
  <1>2. /\ new \in Seq(Entry) /\ Len(new) = Len(table) /\ DOMAIN new = DOMAIN table
        /\ \A k \in DOMAIN table : new[k].name = table[k].name
        /\ new[f].tid = t
        /\ \A k \in DOMAIN table \ {f} : new[k] = table[k]
    <2> DEFINE e == [table[f] EXCEPT !.tid = t]
    <2>1. table[f] \in Entry
      BY <1>1
    <2>2. e \in Entry /\ e.name = table[f].name /\ e.tid = t
      BY <2>1 DEF Entry
    <2>3. new = [table EXCEPT ![f] = e]
      BY <1>1 DEF f, Rebind
    <2> HIDE DEF e, new
    <2>4. /\ new \in Seq(Entry) /\ Len(new) = Len(table) /\ DOMAIN new = DOMAIN table
          /\ new[f] = e /\ \A k \in DOMAIN table \ {f} : new[k] = table[k]
      BY <1>1, <2>2, <2>3, EntryReplaced
    <2> QED BY <2>2, <2>4
  <1> HIDE DEF new
  <1>3. Unique(new)
    BY <1>2 DEF Unique
  <1>4. \A m : Known(new, m) <=> Known(table, m)
    BY <1>2 DEF Known
  <1>5. NamesIn(new) = NamesIn(table)
    BY <1>4 DEF NamesIn
  <1>6. ASSUME NEW m \in Name
        PROVE  Lookup(new, m) = IF m = n THEN t ELSE Lookup(table, m)
    <2>1. CASE m = n
      <3>1. new[f].name = n
        BY <1>1, <1>2
      <3>2. Lookup(new, new[f].name) = new[f].tid
        BY <1>1, <1>2, <1>3, FoundAt
      <3> QED BY <2>1, <3>1, <3>2, <1>2
    <2>2. CASE m # n /\ Known(table, m)
      <3>1. PICK k \in DOMAIN table : table[k].name = m
        BY <2>2 DEF Known
      <3>2. k # f /\ new[k] = table[k]
        BY <2>2, <3>1, <1>1, <1>2
      <3>3. Lookup(table, m) = table[k].tid /\ Lookup(new, m) = new[k].tid
        BY <3>1, <3>2, <1>2, <1>3, FoundAt
      <3> QED BY <2>2, <3>2, <3>3
    <2>3. CASE m # n /\ ~ Known(table, m)
      BY <2>3, <1>4 DEF Lookup
    <2> QED BY <2>1, <2>2, <2>3
  <1> QED BY <1>2, <1>3, <1>5, <1>6 DEF new

LEMMA LookupType ==
  ASSUME NEW table \in Seq(Entry), Unique(table), NEW n \in Name
  PROVE  /\ Known(table, n) => Lookup(table, n) \in Task
         /\ ~ Known(table, n) => Lookup(table, n) = UNKNOWN_NAME
         /\ Lookup(table, n) \in Int
         /\ Known(table, n) <=> Lookup(table, n) # UNKNOWN_NAME
  <1>1. CASE Known(table, n)
    <2>1. Find(table, n) \in DOMAIN table
      BY <1>1, FoundName
    <2>2. table[Find(table, n)] \in Entry
      BY <2>1
    <2>3. Lookup(table, n) \in Task
      BY <1>1, <2>2 DEF Lookup, Entry
    <2>4. Lookup(table, n) \in Nat
      BY <2>3, NameServerAssumption
    <2>5. Lookup(table, n) \in Int /\ Lookup(table, n) # UNKNOWN_NAME
      BY <2>4 DEF UNKNOWN_NAME
    <2> QED BY <1>1, <2>3, <2>5, Zenon
  <1>2. CASE ~ Known(table, n)
    <2>1. Lookup(table, n) = UNKNOWN_NAME
      BY <1>2 DEF Lookup
    <2>2. UNKNOWN_NAME \in Int
      BY DEF UNKNOWN_NAME
    <2> QED BY <1>2, <2>1, <2>2, Zenon
  <1> QED BY <1>1, <1>2

-----------------------------------------------------------------------------
(* The invariant.                                                          *)

LEMMA NInitInv == NInit => NInv
  <1> SUFFICES ASSUME NInit PROVE NInv
    OBVIOUS
  <1>1. NType
    BY DEF NInit, NType, CallRecords
  <1>2. Unique(names) /\ InboxSound
    BY DEF NInit, Unique, InboxSound
  <1>3. NamesIn(names) = {}
    BY DEF NInit, NamesIn, Known
  <1>4. Counted
    BY <1>3, FS_EmptySet DEF NInit, Counted
  <1> QED BY <1>1, <1>2, <1>4 DEF NInv

\* The calls and the inbox when a task makes a call.
LEMMA SendInv ==
  ASSUME NInv, NEW t \in Task, NEW kind \in Kinds, NEW n \in Name, Send(t, kind, n)
  PROVE  NInv'
  <1>1. Sent(kind, n) \in CallRecords /\ Sent(kind, n).at = "sent"
    BY DEF Sent, CallRecords
  <1>2. NType'
    BY <1>1 DEF NInv, NType, Send
  <1>3. InboxSound'
    <2>1. \A k \in DOMAIN inbox : inbox[k] # t
      BY DEF NInv, InboxSound, Send, NType
    <2>2. /\ DOMAIN inbox' = 1 .. Len(inbox) + 1 /\ DOMAIN inbox = 1 .. Len(inbox)
          /\ Len(inbox) \in Nat
          /\ inbox'[Len(inbox) + 1] = t /\ \A k \in DOMAIN inbox : inbox'[k] = inbox[k]
      BY DEF NInv, NType, Send
    <2>3. call'[t].at = "sent" /\ \A u \in Task \ {t} : call'[u] = call[u]
      BY <1>1 DEF NInv, NType, Send
    <2>4. \A k \in DOMAIN inbox : inbox[k] \in Task /\ call[inbox[k]].at = "sent"
      BY DEF NInv, NType, InboxSound, Send
    <2>5. \A k, l \in DOMAIN inbox : inbox[k] = inbox[l] => k = l
      BY DEF NInv, InboxSound, Send
    <2> QED BY <2>1, <2>2, <2>3, <2>4, <2>5 DEF InboxSound
  <1>4. Unique(names)' /\ Counted'
    BY DEF NInv, Send, Unique, Counted
  <1> QED BY <1>2, <1>3, <1>4 DEF NInv

\* Receiving takes the first call out of the inbox, and leaves the others.
LEMMA ReceiveInbox ==
  ASSUME NInv, NEW t \in Task, NEW kind \in Kinds, Receive(t, kind)
  PROVE  /\ state = "running" /\ inbox' \in Seq(Task)
         /\ call[t].at = "sent" /\ call[t].kind = kind /\ call[t].name \in Name
         /\ \A k \in DOMAIN inbox' : call[inbox'[k]].at = "sent" /\ inbox'[k] # t
         /\ \A k, l \in DOMAIN inbox' : inbox'[k] = inbox'[l] => k = l
  <1>1. /\ inbox \in Seq(Task) /\ inbox # <<>> /\ state = "running"
        /\ t = inbox[1] /\ inbox' = Tail(inbox) /\ call[t].kind = kind
    BY DEF NInv, NType, Receive
  <1>2. /\ inbox' \in Seq(Task) /\ Len(inbox') = Len(inbox) - 1
        /\ \A k \in 1 .. Len(inbox') : inbox'[k] = inbox[k + 1]
        /\ Len(inbox) \in Nat \ {0}
    BY <1>1, HeadTailProperties
  <1>3. DOMAIN inbox = 1 .. Len(inbox) /\ DOMAIN inbox' = 1 .. Len(inbox')
    BY <1>1, <1>2
  <1>4. /\ \A k \in DOMAIN inbox : call[inbox[k]].at = "sent"
        /\ \A k, l \in DOMAIN inbox : inbox[k] = inbox[l] => k = l
    BY <1>1 DEF NInv, InboxSound
  <1>5. call[t].at = "sent"
    BY <1>1, <1>2, <1>3, <1>4
  <1>6. call[t] \in CallRecords
    BY DEF NInv, NType
  <1>7. call[t].name \in Name
    BY <1>5, <1>6 DEF CallRecords
  <1>8. \A k \in DOMAIN inbox' : call[inbox'[k]].at = "sent" /\ inbox'[k] # t
    BY <1>1, <1>2, <1>3, <1>4
  <1>9. ASSUME NEW k \in DOMAIN inbox', NEW l \in DOMAIN inbox', inbox'[k] = inbox'[l]
        PROVE  k = l
    <2>1. k \in Int /\ l \in Int /\ k + 1 \in DOMAIN inbox /\ l + 1 \in DOMAIN inbox
      BY <1>2, <1>3
    <2>2. inbox[k + 1] = inbox[l + 1]
      BY <1>2, <1>3, <1>9
    <2>3. k + 1 = l + 1
      BY <1>4, <2>1, <2>2
    <2> QED BY <2>1, <2>3
  <1> QED BY <1>1, <1>2, <1>5, <1>7, <1>8, <1>9

LEMMA ReturnedType ==
  ASSUME NEW c \in CallRecords, c.at = "sent", NEW code \in Int
  PROVE  Returned(c, code) \in CallRecords /\ Returned(c, code).at = "back"
  BY DEF CallRecords, Returned

\* A reply to the call received keeps the type of the calls and the soundness of the inbox.
LEMMA ReplyInv ==
  ASSUME NInv, NEW t \in Task, NEW kind \in Kinds, NEW code \in Int,
         Receive(t, kind), Reply(t, code), UNCHANGED state
  PROVE  call' \in [Task -> CallRecords] /\ inbox' \in Seq(Task) /\ InboxSound'
  <1>1. call \in [Task -> CallRecords]
    BY DEF NInv, NType
  <1>2. call[t].at = "sent"
    BY ReceiveInbox
  <1>3. Returned(call[t], code) \in CallRecords
    BY <1>1, <1>2, ReturnedType
  <1>4. call' \in [Task -> CallRecords] /\ \A u \in Task \ {t} : call'[u] = call[u]
    BY <1>1, <1>3 DEF Reply
  <1>5. /\ inbox' \in Seq(Task)
        /\ \A k \in DOMAIN inbox' : call[inbox'[k]].at = "sent" /\ inbox'[k] # t
        /\ \A k, l \in DOMAIN inbox' : inbox'[k] = inbox'[l] => k = l
    BY ReceiveInbox
  <1>6. \A k \in DOMAIN inbox' : inbox'[k] \in Task
    BY <1>5
  <1> QED BY <1>4, <1>5, <1>6 DEF InboxSound

LEMMA WhoIsInv ==
  ASSUME NInv, NEW t \in Task, WhoIs(t)
  PROVE  NInv'
  <1>1. Lookup(names, call[t].name) \in Int
    <2>1. call[t].name \in Name
      BY ReceiveInbox DEF WhoIs, Kinds
    <2> QED BY <2>1, LookupType DEF NInv, NType
  <1>2. call' \in [Task -> CallRecords] /\ inbox' \in Seq(Task) /\ InboxSound'
    BY <1>1, ReplyInv DEF WhoIs, Kinds
  <1>3. names' = names /\ index' = index /\ state' = state
    BY DEF WhoIs
  <1>4. Unique(names)' /\ Counted'
    BY <1>3 DEF NInv, Counted
  <1> QED BY <1>2, <1>3, <1>4 DEF NInv, NType

\* What registering does to the table.
LEMMA Registered ==
  ASSUME NInv, NEW t \in Task, NEW n \in Name,
         \/ Known(names, n) /\ RegisterKnown(t, n)
         \/ ~ Known(names, n) /\ RegisterNew(t, n)
  PROVE  /\ names' \in Seq(Entry) /\ index' \in Nat /\ Unique(names') /\ Counted'
         /\ \A m \in Name : Lookup(names', m) = IF m = n THEN t ELSE Lookup(names, m)
  <1>1. names \in Seq(Entry) /\ index \in Nat /\ Unique(names)
    BY DEF NInv, NType
  <1>2. CASE Known(names, n) /\ RegisterKnown(t, n)
    <2>1. names' = Rebind(names, n, t) /\ index' = index
      BY <1>2 DEF RegisterKnown
    <2>2. /\ names' \in Seq(Entry) /\ Unique(names') /\ Len(names') = Len(names)
          /\ NamesIn(names') = NamesIn(names)
          /\ \A m \in Name : Lookup(names', m) = IF m = n THEN t ELSE Lookup(names, m)
      BY <1>1, <1>2, <2>1, RebindLookup
    <2>3. Counted'
      BY <2>2 DEF NInv, Counted
    <2> QED BY <1>1, <2>1, <2>2, <2>3
  <1>3. CASE ~ Known(names, n) /\ RegisterNew(t, n)
    <2> DEFINE e == [name |-> n, tid |-> t]
    <2>1. /\ names' = Append(names, e) /\ index' = index + Length[n] + 1
          /\ e \in Entry /\ e.name = n /\ e.tid = t
      BY <1>3 DEF RegisterNew, Entry
    <2> HIDE DEF e
    <2>2. /\ names' \in Seq(Entry) /\ Unique(names')
          /\ NamesIn(names') = NamesIn(names) \cup {n}
          /\ \A m \in Name : Lookup(names', m) = IF m = n THEN t ELSE Lookup(names, m)
      BY <1>1, <1>3, <2>1, AppendLookup
    <2>3. n \notin NamesIn(names)
      BY <1>3 DEF NamesIn
    <2>4. IsFiniteSet(NamesIn(names)) /\ Cardinality(NamesIn(names)) = Len(names)
      BY DEF NInv, Counted
    <2>5. /\ IsFiniteSet(NamesIn(names'))
          /\ Cardinality(NamesIn(names')) = Cardinality(NamesIn(names)) + 1
      BY <2>2, <2>3, <2>4, FS_AddElement
    <2>6. Len(names') = Len(names) + 1
      BY <1>1, <2>1
    <2>7. Counted'
      BY <2>4, <2>5, <2>6 DEF Counted
    <2>8. index' \in Nat
      BY <1>1, <2>1, NameServerAssumption
    <2> QED BY <2>2, <2>7, <2>8
  <1> QED BY <1>2, <1>3

LEMMA RegisterAsInv ==
  ASSUME NInv, NEW t \in Task, RegisterAs(t)
  PROVE  NInv'
  <1> DEFINE n == call[t].name
  <1>1. Receive(t, "RegisterAs") /\ "RegisterAs" \in Kinds
    BY DEF RegisterAs, Kinds
  <1>2. n \in Name /\ inbox' \in Seq(Task)
    BY <1>1, ReceiveInbox
  <1>3. CASE Panic
    BY <1>2, <1>3 DEF Panic, NInv, NType, InboxSound, Counted, Unique
  <1>4. CASE /\ \/ Known(names, n) /\ RegisterKnown(t, n)
                \/ ~ Known(names, n) /\ RegisterNew(t, n)
             /\ Reply(t, 0) /\ state' = state
    <2>1. names' \in Seq(Entry) /\ index' \in Nat /\ Unique(names') /\ Counted'
      BY <1>2, <1>4, Registered
    <2>2. call' \in [Task -> CallRecords] /\ InboxSound'
      BY <1>1, <1>4, ReplyInv
    <2> QED BY <1>2, <1>4, <2>1, <2>2 DEF NInv, NType
  <1> QED BY <1>3, <1>4 DEF RegisterAs

LEMMA ShutdownInv ==
  ASSUME NInv, NEW t \in Task, Shutdown(t)
  PROVE  NInv'
  <1>1. call \in [Task -> CallRecords] /\ call[t].at = "sent" /\ inbox' \in Seq(Task)
    BY ReceiveInbox DEF NInv, NType, Shutdown, Kinds
  <1>2. \A u \in Task : call'[u] \in CallRecords
    <2>1. ASSUME NEW u \in Task, call[u].at = "sent", NEW code \in Int
          PROVE  Returned(call[u], code) \in CallRecords
      BY <1>1, <2>1, ReturnedType
    <2>2. 0 \in Int /\ INVALID_TID \in Int
      BY DEF INVALID_TID
    <2> QED BY <1>1, <2>1, <2>2 DEF Shutdown
  <1>3. call' \in [Task -> CallRecords]
    BY <1>2 DEF Shutdown
  <1>4. names' = names /\ index' = index /\ state' = "exited"
    BY DEF Shutdown
  <1>5. Unique(names)' /\ Counted' /\ InboxSound'
    BY <1>4 DEF NInv, Counted, InboxSound
  <1> QED BY <1>1, <1>3, <1>4, <1>5 DEF NInv, NType

LEMMA SendFailsInv ==
  ASSUME NInv, NEW t \in Task, NEW kind \in Kinds, NEW n \in Name, SendFails(t, kind, n)
  PROVE  NInv'
  <1>1. Returned(Sent(kind, n), INVALID_TID) \in CallRecords
    BY ReturnedType DEF Sent, CallRecords, INVALID_TID
  <1>2. NType'
    BY <1>1 DEF NInv, NType, SendFails
  <1>3. Unique(names)' /\ Counted' /\ InboxSound'
    BY DEF NInv, SendFails, Counted, InboxSound
  <1> QED BY <1>2, <1>3 DEF NInv

LEMMA ReturnInv ==
  ASSUME NInv, NEW t \in Task, Return(t)
  PROVE  NInv'
  <1>1. [at |-> "none"] \in CallRecords
    BY DEF CallRecords
  <1>2. NType'
    BY <1>1 DEF NInv, NType, Return
  <1>3. InboxSound'
    <2>1. CASE state' = "running"
      <3>1. state = "running" /\ inbox' = inbox
        BY <2>1 DEF Return
      <3>2. \A u \in Task \ {t} : call'[u] = call[u]
        BY DEF NInv, NType, Return
      <3>3. \A k \in DOMAIN inbox : inbox[k] \in Task /\ inbox[k] # t
        BY <3>1 DEF NInv, NType, InboxSound, Return
      <3> QED BY <3>1, <3>2, <3>3 DEF NInv, InboxSound
    <2>2. CASE state' # "running"
      BY <2>2 DEF InboxSound
    <2> QED BY <2>1, <2>2
  <1>4. Unique(names)' /\ Counted'
    BY DEF NInv, Return, Counted
  <1> QED BY <1>2, <1>3, <1>4 DEF NInv

LEMMA NStepInv == NInv /\ [NNext]_nvars => NInv'
  <1> SUFFICES ASSUME NInv, [NNext]_nvars PROVE NInv'
    OBVIOUS
  <1>1. ASSUME NEW t \in Task, WhoIs(t) PROVE NInv'
    BY <1>1, WhoIsInv
  <1>2. ASSUME NEW t \in Task, RegisterAs(t) PROVE NInv'
    BY <1>2, RegisterAsInv
  <1>3. ASSUME NEW t \in Task, Shutdown(t) PROVE NInv'
    BY <1>3, ShutdownInv
  <1>4. ASSUME NEW t \in Task, NEW kind \in Kinds, NEW n \in Name, Send(t, kind, n) PROVE NInv'
    BY <1>4, SendInv
  <1>5. ASSUME NEW t \in Task, NEW kind \in Kinds, NEW n \in Name, SendFails(t, kind, n)
        PROVE NInv'
    BY <1>5, SendFailsInv
  <1>6. ASSUME NEW t \in Task, Return(t) PROVE NInv'
    BY <1>6, ReturnInv
  <1>7. CASE UNCHANGED nvars
    BY <1>7 DEF nvars, NInv, NType, Unique, InboxSound, Counted
  <1> QED BY <1>1, <1>2, <1>3, <1>4, <1>5, <1>6, <1>7 DEF NNext, Serve, Client

\* The invariant of the name server: its table has no duplicates and its inbox no stale calls.
THEOREM NameServerInvariant == NSpec => []NInv
  BY NInitInv, NStepInv, PTL DEF NSpec

-----------------------------------------------------------------------------
(* The refinement.                                                         *)

\* The directory the table stands for.
Dir == [n \in Name |-> Lookup(names, n)]

LEMMA BoundIsKnown ==
  ASSUME NInv
  PROVE  Map!Bound = NamesIn(names)
  <1>1. \A n \in Name : Known(names, n) <=> Lookup(names, n) # UNKNOWN_NAME
    BY LookupType DEF NInv, NType
  <1> QED BY <1>1 DEF Map!Bound, NamesIn, Map!UNKNOWN_NAME, UNKNOWN_NAME

LEMMA SameCardinality == ASSUME NEW S PROVE Map!Cardinality(S) = Cardinality(S)
  BY DEF Map!Cardinality, Cardinality

\* Receiving makes the call one that is pending in the directory.
LEMMA ReceivedIsPending ==
  ASSUME NInv, NEW t \in Task, NEW kind \in Kinds, Receive(t, kind)
  PROVE  Map!Pending(t, kind) /\ call[t].name \in Name
  BY ReceiveInbox DEF Map!Pending

LEMMA ReplyIsAnswer ==
  ASSUME NEW t, NEW code, Reply(t, code)
  PROVE  Map!Answers(t, code)
  BY DEF Reply, Map!Answers, Returned, Map!Returned

LEMMA WhoIsLooksUp ==
  ASSUME NInv, NEW t \in Task, WhoIs(t)
  PROVE  Map!LooksUp(t)
  <1>1. Receive(t, "WhoIs") /\ "WhoIs" \in Kinds /\ names' = names /\ state' = state
    BY DEF WhoIs, Kinds
  <1>2. Map!Pending(t, "WhoIs") /\ call[t].name \in Name
    BY <1>1, ReceivedIsPending
  <1>3. Map!Answers(t, Lookup(names, call[t].name))
    BY ReplyIsAnswer DEF WhoIs
  <1>4. Dir[call[t].name] = Lookup(names, call[t].name) /\ Dir' = Dir
    BY <1>1, <1>2 DEF Dir
  <1> QED BY <1>1, <1>2, <1>3, <1>4 DEF Map!LooksUp, Dir

LEMMA RegisterAsBindsOrFails ==
  ASSUME NInv, NEW t \in Task, RegisterAs(t)
  PROVE  Map!Binds(t) \/ Map!Fails(t)
  <1> DEFINE n == call[t].name
  <1>1. Receive(t, "RegisterAs") /\ "RegisterAs" \in Kinds
    BY DEF RegisterAs, Kinds
  <1>2. Map!Pending(t, "RegisterAs") /\ n \in Name
    BY <1>1, ReceivedIsPending
  <1>3. CASE /\ \/ Known(names, n) /\ RegisterKnown(t, n)
                \/ ~ Known(names, n) /\ RegisterNew(t, n)
             /\ Reply(t, 0) /\ state' = state
    <2>1. \A m \in Name : Lookup(names', m) = IF m = n THEN t ELSE Lookup(names, m)
      BY <1>2, <1>3, Registered
    <2>2. Dir' = [Dir EXCEPT ![n] = t]
      BY <1>2, <2>1 DEF Dir
    <2>3. Map!Answers(t, 0)
      BY <1>3, ReplyIsAnswer
    <2> QED BY <1>2, <1>3, <2>2, <2>3 DEF Map!Binds, Dir
  <1>4. CASE (TableFull \/ (~ Known(names, n) /\ ArenaFull(n))) /\ Panic
    <2>1. names' = names /\ call' = call /\ state' = "halted"
      BY <1>4 DEF Panic
    <2>2. Dir' = Dir
      BY <2>1 DEF Dir
    <2>3. ASSUME n \in Map!Bound PROVE Cardinality(Map!Bound) >= MAX_NAMES
      <3>1. Known(names, n) /\ Map!Bound = NamesIn(names)
        BY <2>3, BoundIsKnown DEF NamesIn
      <3>2. Len(names) >= MAX_NAMES
        BY <1>4, <3>1 DEF TableFull
      <3>3. Cardinality(NamesIn(names)) = Len(names)
        BY DEF NInv, Counted
      <3> QED BY <3>1, <3>2, <3>3
    <2> QED BY <1>2, <2>1, <2>2, <2>3, SameCardinality DEF Map!Fails, Dir
  <1> QED BY <1>3, <1>4 DEF RegisterAs

LEMMA ShutdownStops ==
  ASSUME NInv, NEW t \in Task, Shutdown(t)
  PROVE  Map!Stops(t)
  <1>1. Receive(t, "Shutdown") /\ "Shutdown" \in Kinds /\ names' = names
    BY DEF Shutdown, Kinds
  <1>2. Map!Pending(t, "Shutdown")
    BY <1>1, ReceivedIsPending
  <1>3. Dir' = Dir
    BY <1>1 DEF Dir
  <1> QED BY <1>2, <1>3
          DEF Shutdown, Map!Stops, Dir, Returned, Map!Returned, INVALID_TID, Map!INVALID_TID

LEMMA SendAsks ==
  ASSUME NEW t \in Task, NEW kind \in Kinds, NEW n \in Name, Send(t, kind, n)
  PROVE  Map!Asks(t)
  <1>1. Sent(kind, n) \in Map!Request
    BY DEF Sent, Kinds, Map!Request, Map!Kinds
  <1>2. Dir' = Dir
    BY DEF Send, Dir
  <1> QED BY <1>1, <1>2 DEF Send, Map!Asks, Dir

LEMMA SendFailsAsksNobody ==
  ASSUME NEW t \in Task, NEW kind \in Kinds, NEW n \in Name, SendFails(t, kind, n)
  PROVE  Map!AsksNobody(t)
  <1>1. Sent(kind, n) \in Map!Request
    BY DEF Sent, Kinds, Map!Request, Map!Kinds
  <1>2. Dir' = Dir
    BY DEF SendFails, Dir
  <1> QED BY <1>1, <1>2
          DEF SendFails, Map!AsksNobody, Dir, Returned, Map!Returned, INVALID_TID, Map!INVALID_TID

LEMMA ReturnGoesOn ==
  ASSUME NEW t \in Task, Return(t)
  PROVE  Map!GoesOn(t)
  <1>1. Dir' = Dir
    BY DEF Return, Dir
  <1> QED BY <1>1 DEF Return, Map!GoesOn, Dir, INVALID_TID, Map!INVALID_TID

LEMMA NInitDir == NInit => Map!DInit
  <1> SUFFICES ASSUME NInit PROVE Map!DInit
    OBVIOUS
  <1>1. \A n \in Name : Lookup(names, n) = UNKNOWN_NAME
    BY DEF NInit, Lookup, Known
  <1> QED BY <1>1 DEF NInit, Map!DInit, UNKNOWN_NAME, Map!UNKNOWN_NAME

LEMMA NStepDir == NInv /\ [NNext]_nvars => [Map!DNext]_(Map!dvars)
  <1> SUFFICES ASSUME NInv, [NNext]_nvars PROVE [Map!DNext]_(Map!dvars)
    OBVIOUS
  <1>1. ASSUME NEW t \in Task, WhoIs(t) PROVE Map!DNext
    BY <1>1, WhoIsLooksUp DEF Map!DNext
  <1>2. ASSUME NEW t \in Task, RegisterAs(t) PROVE Map!DNext
    BY <1>2, RegisterAsBindsOrFails DEF Map!DNext
  <1>3. ASSUME NEW t \in Task, Shutdown(t) PROVE Map!DNext
    BY <1>3, ShutdownStops DEF Map!DNext
  <1>4. ASSUME NEW t \in Task, NEW kind \in Kinds, NEW n \in Name, Send(t, kind, n)
        PROVE Map!DNext
    BY <1>4, SendAsks DEF Map!DNext
  <1>5. ASSUME NEW t \in Task, NEW kind \in Kinds, NEW n \in Name, SendFails(t, kind, n)
        PROVE Map!DNext
    BY <1>5, SendFailsAsksNobody DEF Map!DNext
  <1>6. ASSUME NEW t \in Task, Return(t) PROVE Map!DNext
    BY <1>6, ReturnGoesOn DEF Map!DNext
  <1>7. ASSUME UNCHANGED nvars PROVE UNCHANGED Map!dvars
    BY <1>7 DEF nvars, Map!dvars
  <1> QED BY <1>1, <1>2, <1>3, <1>4, <1>5, <1>6, <1>7 DEF NNext, Serve, Client

\* The name server answers as a map of names to tasks would (nameserver.cc:87-157), whatever
\* its callers do and however small its table.
THEOREM NameServerIsDirectory == NSpec => DirectoryKept
  BY NInitDir, NStepDir, NameServerInvariant, PTL DEF NSpec, DirectoryKept, Map!DSpec

=============================================================================
