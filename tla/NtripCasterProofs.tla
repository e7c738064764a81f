------------------------- MODULE NtripCasterProofs -------------------------
(***************************************************************************)
(* Proofs about the registry of the sources and the casters, for any       *)
(* sources of the file and of streams, any virtual stations, any size of a *)
(* caster and any number of requests.                                      *)
(***************************************************************************)
EXTENDS NtripCaster, FiniteSetTheorems, TLAPS

\* The sources of a caster that is yet to be made.
Unstarted(c) == IF c <= NCaster /\ boot[c] = "none" THEN Share(c) ELSE {}

\* What is, or is coming, to the sources of a caster.
Coming(c) == ElementsOf(addq[c]) \union todo[c] \union Unstarted(c)
Home(c) == srcs[c] \union Coming(c)
Alive == UNION {Home(c) : c \in Caster}

\* The casters: what is in each of them in which state of its thread, and all of them
\* in the table until it is freed.
Casters ==
  /\ \A c \in Caster :
       /\ boot[c] # "ready" => srcs[c] = {}
       /\ boot[c] \in {"none", "stopped"} => todo[c] = {}
       /\ boot[c] \in {"none", "off", "half"} => addq[c] = <<>> /\ delq[c] = <<>>
       /\ phase # "closed" /\ boot[c] # "none" => c \in ElementsOf(tbl)
  /\ \A k \in DOMAIN tbl : boot[tbl[k]] # "none"
  /\ \A c \in 1 .. NCaster : /\ phase # "open" => boot[c] # "none"
                             /\ phase = "closed" => boot[c] = "stopped"

\* The command that is being carried out is about a source that has its name.
Commands ==
  api # Idle => phase = "open" /\ api.id \in DOMAIN nameOf /\ nameOf[api.id] = api.name
                /\ (api.op = "tell" => api.name \notin VrsNames)

\* The sources of the file come first, each once, and stay until one is deleted.
Files ==
  /\ \A i \in 1 .. NFile : nameOf[i] \in FileNames
  /\ \A i, j \in 1 .. NFile : nameOf[i] = nameOf[j] => i = j
  /\ \A c \in Caster : /\ \A i \in ElementsOf(addq[c]) : i > NFile
                       /\ \A i \in todo[c] : /\ i > NFile => "new_caster" \in cause
                                             /\ i <= NFile => c <= NCaster
  /\ phase # "closed" => \A i \in 1 .. NFile : i \in byname \/ "table_freed" \in cause
  /\ \A i \in 1 .. NFile : i \in byname => \A j \in DOMAIN nameOf : nameOf[j] = nameOf[i] => j = i
  /\ \A c \in Caster : \A name \in ElementsOf(delq[c]) :
       /\ name \in VrsNames => "no_client" \in cause
       /\ \A i \in 1 .. NFile : nameOf[i] = name => "table_freed" \in cause

\* A source has one place.
Distinct(q) == \A k, l \in DOMAIN q : q[k] = q[l] => k = l

Apart(c) ==
  /\ srcs[c] \intersect Coming(c) = {}
  /\ todo[c] \intersect ElementsOf(addq[c]) = {}
  /\ Distinct(addq[c])

Places ==
  /\ \A c \in Caster : \A i \in Home(c) : i <= NFile => i \in Share(c)
  /\ \A c, d \in Caster : \A i \in Home(c) : i > NFile /\ i \in Home(d) => c = d
  /\ \A c \in Caster : Apart(c)

\* A name has one source, and what is there or is to be started is registered, but
\* for requests that raced.
Unique == \A i, j \in Alive : nameOf[i] = nameOf[j] /\ i # j => "raced" \in excuse[nameOf[i]]

Registered ==
  prog = "runs" => \A c \in Caster : \A i \in srcs[c] \union Unstarted(c) :
                     i \in byname \/ "raced" \in excuse[nameOf[i]]

FreedExcused ==
  \A i \in freed : "raced" \in excuse[nameOf[i]] \/ "not_started" \in excuse[nameOf[i]]

\* No burst: what a caster runs and what it was given fit.
Capacity ==
  "burst" \notin cause =>
    \A c \in Caster : Cardinality(srcs[c]) + Cardinality(todo[c]) + Len(addq[c]) <= MaxSrcs

\* A name that was only asked for when nothing was under way is in the state that was
\* asked for, or a caster has the task that leads to it.
Calm(name) == excuse[name] \subseteq {"untold"}

Wanted(name) ==
  /\ wanted[name] = "added" =>
       /\ Named(Alive, name) # {}
       /\ \A c \in Caster : name \notin ElementsOf(delq[c])
  /\ wanted[name] = "deleted" =>
       \A c \in Caster : /\ Named(Coming(c), name) = {}
                         /\ Named(srcs[c], name) # {} => name \in ElementsOf(delq[c])
  /\ Named(byname, name) \subseteq Alive

\* What the network was told of a name.
ToldOf(name) ==
  IF wanted[name] = "deleted" \/ (api.op = "tell" /\ api.name = name /\ api.id \notin told)
  THEN {} ELSE Named(Alive, name)

Told(name) ==
  /\ api # Idle /\ api.name = name =>
       /\ api.op = "tell" => wanted[name] = "added"
       /\ wanted[name] = "added" => api.id \in Alive
  /\ name \notin VrsNames /\ excuse[name] = {} =>
       Named(told, name) = ToldOf(name)

Requests ==
  phase = "open" /\ prog = "runs" => \A name \in Name : Calm(name) => Wanted(name) /\ Told(name)

CasterInv == /\ TypeOK /\ Casters /\ Commands /\ Files /\ Places /\ Unique /\ Registered
             /\ FreedExcused /\ Capacity /\ Requests /\ TablesAgree /\ CrashExcused

-----------------------------------------------------------------------------
(* The constants.                                                          *)

LEMMA Sizes ==
  /\ NFile \in Nat \ {0} /\ MaxId \in Nat /\ NFile <= MaxId /\ MaxSrcs \in Nat \ {0}
  /\ NCaster \in Nat
<1>1. IsFiniteSet(FileNames) /\ FileNames # {}
      /\ MaxSrcs \in Nat \ {0} /\ MaxId \in Nat /\ MaxId >= Cardinality(FileNames)
  BY CasterAssumption DEF CasterAssumption
<1>2. NFile \in Nat \ {0} /\ NFile <= MaxId
  BY <1>1, FS_CardinalityType, FS_EmptySet DEF NFile
<1>3. NCaster \in Nat
  BY <1>1, <1>2 DEF NCaster
<1> QED BY <1>1, <1>2, <1>3

LEMMA CasterNumbers ==
  /\ 1 .. NCaster \subseteq Caster /\ NCaster + 1 \in Caster /\ NCaster + 1 \notin 1 .. NCaster
  /\ \A c \in Caster : c \in Nat /\ (c <= NCaster <=> c \in 1 .. NCaster)
                       /\ (c # NCaster + 1 => c \in 1 .. NCaster)
BY Sizes DEF Caster

LEMMA FileSet == 1 .. NFile \subseteq Id
BY Sizes DEF Id

\* A caster's share of the file is no more than it has room for, and nobody else's.
LEMMA Shares ==
  /\ \A c \in Caster : /\ Share(c) \subseteq 1 .. NFile /\ IsFiniteSet(Share(c))
                       /\ Cardinality(Share(c)) <= MaxSrcs
  /\ \A c, d \in Caster : \A i \in Share(c) : i \in Share(d) => c = d
<1>1. ASSUME NEW c \in Caster, NEW d \in Caster, NEW i \in Share(c), i \in Share(d)
      PROVE  c = d
  <2>1. c - 1 = d - 1
    BY <1>1 DEF Share
  <2> QED BY <2>1, CasterNumbers
<1>2. ASSUME NEW c \in Caster
      PROVE  /\ Share(c) \subseteq 1 .. NFile /\ IsFiniteSet(Share(c))
             /\ Cardinality(Share(c)) <= MaxSrcs
  <2> DEFINE a == (c - 1) * MaxSrcs + 1
             b == (c - 1) * MaxSrcs + MaxSrcs
  <2>1. c \in Nat /\ MaxSrcs \in Nat \ {0} /\ c - 1 \in Int
    BY CasterNumbers, Sizes
  <2>2. (c - 1) * MaxSrcs \in Int
    BY <2>1
  <2>3. a \in Int /\ b \in Int /\ b - a + 1 = MaxSrcs /\ ~ (a > b)
    BY ONLY <2>1, <2>2
  <2>4. ASSUME NEW i \in 1 .. NFile, (i - 1) \div MaxSrcs = c - 1
        PROVE  i \in a .. b
    <3>1. i - 1 \in Int
      BY Sizes
    <3>2. /\ (i - 1) = MaxSrcs * ((i - 1) \div MaxSrcs) + ((i - 1) % MaxSrcs)
          /\ (i - 1) % MaxSrcs \in 0 .. MaxSrcs - 1
      BY ONLY <2>1, <3>1
    <3>3. i - 1 >= MaxSrcs * (c - 1) /\ i - 1 <= MaxSrcs * (c - 1) + MaxSrcs - 1
      BY <2>1, <2>4, <3>1, <3>2
    <3>4. MaxSrcs * (c - 1) = (c - 1) * MaxSrcs
      BY ONLY <2>1
    <3> QED BY <2>1, <2>2, <3>1, <3>3, <3>4
  <2>5. Share(c) \in SUBSET (a .. b)
    BY <2>4 DEF Share
  <2>6. IsFiniteSet(a .. b) /\ Cardinality(a .. b) = MaxSrcs
    BY <2>3, FS_Interval
  <2> QED BY <2>5, <2>6, FS_Subset DEF Share
<1> QED BY <1>1, <1>2

-----------------------------------------------------------------------------
(* What the steps do, caster by caster and name by name.                   *)

Reason == {"raced", "not_started", "no_thread", "name_freed", "untold"}
Cause == {"half_made", "new_caster", "burst", "table_freed", "no_client", "freed_twice"}

LEMMA ApiFacts ==
  ASSUME api \in Command
  PROVE  /\ api # Idle => api.op \in {"tell", "del"} /\ api.id \in Id /\ api.name \in Name
         /\ api.op \in {"tell", "del"} => api # Idle
BY DEF Command, Idle

\* An excuse for a name.
LEMMA ExcuseAt ==
  ASSUME excuse \in [Name -> SUBSET Reason], NEW name \in Name, NEW why \in SUBSET Reason,
         Excuse(name, why)
  PROVE  /\ excuse' \in [Name -> SUBSET Reason]
         /\ \A n \in Name : excuse'[n] = IF n = name THEN excuse[n] \union why ELSE excuse[n]
BY DEF Excuse

\* The names are kept, and some more are given.
Longer(new) ==
  /\ new = Len(nameOf) + 1 /\ new \notin DOMAIN nameOf /\ new \in Id /\ new > NFile
  /\ DOMAIN nameOf' = DOMAIN nameOf \union {new}
  /\ \A i \in DOMAIN nameOf : nameOf'[i] = nameOf[i]

LEMMA NamesGrow ==
  ASSUME TypeOK, NEW name \in Name, Len(nameOf) + 1 <= MaxId, nameOf' = Append(nameOf, name)
  PROVE  /\ Longer(Len(nameOf) + 1) /\ nameOf'[Len(nameOf) + 1] = name
         /\ nameOf' \in Seq(Name) /\ Len(nameOf') \in NFile .. MaxId
<1>1. nameOf \in Seq(Name) /\ Len(nameOf) \in NFile .. MaxId
  BY DEF TypeOK
<1>2. /\ DOMAIN nameOf' = 1 .. Len(nameOf) + 1 /\ DOMAIN nameOf = 1 .. Len(nameOf)
      /\ \A i \in 1 .. Len(nameOf) : nameOf'[i] = nameOf[i]
      /\ nameOf'[Len(nameOf) + 1] = name /\ nameOf' \in Seq(Name)
      /\ Len(nameOf') = Len(nameOf) + 1
  BY <1>1
<1>3. Len(nameOf) \in Nat /\ NFile \in Nat /\ MaxId \in Nat /\ Len(nameOf) >= NFile
  BY <1>1, Sizes
<1>4. Len(nameOf') \in NFile .. MaxId /\ Len(nameOf) + 1 \in Id /\ Len(nameOf) + 1 > NFile
  BY <1>2, <1>3 DEF Id
<1>5. Len(nameOf) + 1 \notin DOMAIN nameOf /\ DOMAIN nameOf' = DOMAIN nameOf \union {Len(nameOf) + 1}
  BY ONLY <1>2, <1>3
<1> QED BY <1>2, <1>4, <1>5 DEF Longer

\* Where a new source is placed.
InNoQueue(name, why) ==
  /\ excuse' \in [Name -> SUBSET Reason]
  /\ \A n \in Name : excuse'[n] = IF n = name THEN excuse[n] \union why \union {"no_thread"} ELSE excuse[n]
  /\ UNCHANGED <<threads, addq, cause, prog>>

InHalf(name, why) ==
  cause' = cause \union {"half_made"} /\ prog' = "crashed" /\ UNCHANGED <<threads, addq, excuse>>

InQueue(name, why) ==
  \E c \in Caster :
    /\ boot[c] = "ready" /\ HasRoom(c)
    /\ addq' = [addq EXCEPT ![c] = Append(@, Len(nameOf) + 1)]
    /\ cause' = IF addq[c] # <<>> \/ todo[c] # {} THEN cause \union {"burst"} ELSE cause
    /\ excuse' \in [Name -> SUBSET Reason]
    /\ \A n \in Name : excuse'[n] = IF n = name THEN excuse[n] \union why ELSE excuse[n]
    /\ UNCHANGED <<threads, prog>>

InNew(name, why) ==
  /\ boot[NCaster + 1] = "none"
  /\ boot' = [boot EXCEPT ![NCaster + 1] = "off"]
  /\ todo' = [todo EXCEPT ![NCaster + 1] = {Len(nameOf) + 1}]
  /\ tbl' = Append(tbl, NCaster + 1)
  /\ cause' = cause \union {"new_caster"}
  /\ excuse' \in [Name -> SUBSET Reason]
  /\ \A n \in Name : excuse'[n] = IF n = name THEN excuse[n] \union why ELSE excuse[n]
  /\ UNCHANGED <<addq, prog>>

LEMMA PlaceCases ==
  ASSUME TypeOK, NEW name \in Name, NEW also \in SUBSET Reason, Place(name, also),
         \A k \in DOMAIN tbl : boot[tbl[k]] # "none"
  PROVE  /\ Longer(Len(nameOf) + 1) /\ nameOf'[Len(nameOf) + 1] = name
         /\ nameOf' \in Seq(Name) /\ Len(nameOf') \in NFile .. MaxId
         /\ UNCHANGED <<byname, byid, freed, delq>>
         /\ LET why == Raced(name) \union also
            IN  InNoQueue(name, why) \/ InHalf(name, why) \/ InQueue(name, why) \/ InNew(name, why)
<1> DEFINE why == Raced(name) \union also
           room == {k \in DOMAIN tbl : HasRoom(tbl[k])}
<1>1. /\ Len(nameOf) + 1 <= MaxId /\ nameOf' = Append(nameOf, name)
      /\ UNCHANGED <<byname, byid, freed, delq>>
      /\ \/ \E k \in room : HandToCaster(tbl[k], Len(nameOf) + 1, name, why) /\ UNCHANGED threads
         \/ /\ boot[NCaster + 1] = "none" /\ NewCaster(Len(nameOf) + 1, name, why)
            /\ UNCHANGED <<addq, prog>>
  BY DEF Place
<1>2. why \in SUBSET Reason /\ why \union {"no_thread"} \in SUBSET Reason
  BY DEF Raced, Reason
<1>3. excuse \in [Name -> SUBSET Reason]
  BY DEF TypeOK, Reason
<1> HIDE DEF why
<1>4. ASSUME NEW k \in room, HandToCaster(tbl[k], Len(nameOf) + 1, name, why), UNCHANGED threads
      PROVE  InNoQueue(name, why) \/ InHalf(name, why) \/ InQueue(name, why)
  <2> DEFINE c == tbl[k]
  <2>1. c \in Caster /\ HasRoom(c) /\ boot[c] \in Boot /\ boot[c] # "none"
    <3>1. tbl \in Seq(Caster) /\ boot \in [Caster -> Boot]
      BY DEF TypeOK
    <3>2. \A l \in DOMAIN tbl : tbl[l] \in Caster
      BY <3>1
    <3> QED BY <3>1, <3>2
  <2> HIDE DEF c
  <2>2. CASE boot[c] \in {"off", "stopped"}
    <3>1. Excuse(name, why \union {"no_thread"}) /\ UNCHANGED <<addq, cause, prog>>
      BY <1>4, <2>2 DEF HandToCaster, c
    <3>2. /\ excuse' \in [Name -> SUBSET Reason]
          /\ \A n \in Name : excuse'[n] = IF n = name THEN excuse[n] \union (why \union {"no_thread"})
                                          ELSE excuse[n]
      BY <1>2, <1>3, <3>1, ExcuseAt
    <3>3. \A n \in Name : excuse[n] \union (why \union {"no_thread"}) = excuse[n] \union why \union {"no_thread"}
      OBVIOUS
    <3>4. \A n \in Name : excuse'[n] = IF n = name THEN excuse[n] \union why \union {"no_thread"} ELSE excuse[n]
      BY <3>2, <3>3
    <3>5. InNoQueue(name, why)
      BY <1>4, <3>1, <3>2, <3>4 DEF InNoQueue
    <3> QED BY <3>5
  <2>3. CASE boot[c] = "half"
    BY <1>4, <2>3 DEF HandToCaster, InHalf, c
  <2>4. CASE boot[c] = "ready"
    <3>1. /\ addq' = [addq EXCEPT ![c] = Append(@, Len(nameOf) + 1)]
          /\ cause' = IF addq[c] # <<>> \/ todo[c] # {} THEN cause \union {"burst"} ELSE cause
          /\ Excuse(name, why) /\ UNCHANGED prog
      BY <1>4, <2>4 DEF HandToCaster, c
    <3>2. /\ excuse' \in [Name -> SUBSET Reason]
          /\ \A n \in Name : excuse'[n] = IF n = name THEN excuse[n] \union why ELSE excuse[n]
      BY <1>2, <1>3, <3>1, ExcuseAt
    <3>3. InQueue(name, why)
      BY <1>4, <2>1, <2>4, <3>1, <3>2 DEF InQueue
    <3> QED BY <3>3
  <2> QED BY <2>1, <2>2, <2>3, <2>4 DEF Boot
<1>5. ASSUME boot[NCaster + 1] = "none", NewCaster(Len(nameOf) + 1, name, why), UNCHANGED <<addq, prog>>
      PROVE  InNew(name, why)
  <2>1. Excuse(name, why)
    BY <1>5 DEF NewCaster
  <2>2. /\ excuse' \in [Name -> SUBSET Reason]
        /\ \A n \in Name : excuse'[n] = IF n = name THEN excuse[n] \union why ELSE excuse[n]
    BY <1>2, <1>3, <2>1, ExcuseAt
  <2> QED BY <1>5, <2>2 DEF NewCaster, InNew
<1>6. /\ Longer(Len(nameOf) + 1) /\ nameOf'[Len(nameOf) + 1] = name
      /\ nameOf' \in Seq(Name) /\ Len(nameOf') \in NFile .. MaxId
  BY <1>1, NamesGrow
<1> QED BY <1>1, <1>4, <1>5, <1>6 DEF why

-----------------------------------------------------------------------------
(* Types.                                                                  *)

LEMMA SeqGrows ==
  ASSUME NEW S, NEW T, S \subseteq T, NEW q \in Seq(S)
  PROVE  q \in Seq(T)
OBVIOUS

LEMMA SeqEnds ==
  ASSUME NEW S, NEW q \in Seq(S), q # <<>>
  PROVE  Head(q) \in S /\ Tail(q) \in Seq(S)
OBVIOUS

LEMMA InitTypes == Init => TypeOK
<1> SUFFICES ASSUME Init PROVE TypeOK
  OBVIOUS
<1>1. PICK f \in [1 .. NFile -> FileNames] : nameOf = f
  BY DEF Init
<1>2. NFile \in Nat /\ NFile <= MaxId /\ MaxId \in Nat
  BY Sizes
<1>3. nameOf \in Seq(Name) /\ Len(nameOf) = NFile /\ DOMAIN nameOf = 1 .. NFile
  <2>1. f \in [1 .. NFile -> Name]
    BY DEF Name
  <2>2. f \in Seq(Name)
    BY <1>2, <2>1
  <2> QED BY <1>1, <1>2, <2>1, <2>2
<1>4. Len(nameOf) \in NFile .. MaxId
  BY <1>2, <1>3
<1>5. tbl \in Seq(Caster) /\ addq \in [Caster -> Seq(DOMAIN nameOf)] /\ delq \in [Caster -> Seq(Name)]
  <2>1. tbl = <<>> /\ addq = [c \in Caster |-> <<>>] /\ delq = [c \in Caster |-> <<>>]
    BY DEF Init
  <2> QED BY <2>1
<1>6. /\ byname \subseteq DOMAIN nameOf /\ byid \subseteq DOMAIN nameOf /\ freed \subseteq DOMAIN nameOf
      /\ boot \in [Caster -> Boot] /\ told \subseteq DOMAIN nameOf
      /\ todo \in [Caster -> SUBSET DOMAIN nameOf] /\ srcs \in [Caster -> SUBSET DOMAIN nameOf]
  BY <1>3 DEF Init, Boot
<1>7. /\ api \in Command /\ wanted \in [Name -> {"added", "deleted"}]
      /\ excuse \in [Name -> SUBSET {"raced", "not_started", "no_thread", "name_freed", "untold"}]
      /\ cause \subseteq {"half_made", "new_caster", "burst", "table_freed", "no_client", "freed_twice"}
      /\ phase \in {"open", "closing", "closed"} /\ prog \in {"runs", "crashed"}
  BY DEF Init, Command
<1> QED BY <1>3, <1>4, <1>5, <1>6, <1>7 DEF TypeOK

\* The parts of the state.
TypesOfTables ==
  /\ nameOf \in Seq(Name) /\ Len(nameOf) \in NFile .. MaxId
  /\ byname \subseteq DOMAIN nameOf /\ byid \subseteq DOMAIN nameOf
  /\ freed \subseteq DOMAIN nameOf /\ told \subseteq DOMAIN nameOf
TypesOfThreads ==
  /\ tbl \in Seq(Caster) /\ boot \in [Caster -> Boot]
  /\ todo \in [Caster -> SUBSET DOMAIN nameOf] /\ srcs \in [Caster -> SUBSET DOMAIN nameOf]
TypesOfQueues == addq \in [Caster -> Seq(DOMAIN nameOf)] /\ delq \in [Caster -> Seq(Name)]
TypesOfRest ==
  /\ api \in Command /\ wanted \in [Name -> {"added", "deleted"}]
  /\ excuse \in [Name -> SUBSET Reason] /\ cause \subseteq Cause
  /\ phase \in {"open", "closing", "closed"} /\ prog \in {"runs", "crashed"}

LEMMA TypeParts == TypeOK <=> TypesOfTables /\ TypesOfThreads /\ TypesOfQueues /\ TypesOfRest
BY DEF TypeOK, TypesOfTables, TypesOfThreads, TypesOfQueues, TypesOfRest, Reason, Cause

LEMMA TypesAfter ==
  ASSUME TypesOfTables', TypesOfThreads', TypesOfQueues', TypesOfRest'
  PROVE  TypeOK'
BY DEF TypeOK, TypesOfTables, TypesOfThreads, TypesOfQueues, TypesOfRest, Reason, Cause

\* A source is placed.
LEMMA PlaceTypes ==
  ASSUME TypeOK, NEW name \in Name, NEW also \in SUBSET Reason, Place(name, also),
         \A k \in DOMAIN tbl : boot[tbl[k]] # "none", UNCHANGED <<told, srcs>>
  PROVE  /\ TypesOfTables' /\ TypesOfThreads' /\ TypesOfQueues'
         /\ excuse' \in [Name -> SUBSET Reason] /\ cause' \subseteq Cause /\ prog' \in {"runs", "crashed"}
<1> DEFINE new == Len(nameOf) + 1
           why == Raced(name) \union also
<1>1. /\ Longer(new) /\ nameOf'[new] = name
      /\ nameOf' \in Seq(Name) /\ Len(nameOf') \in NFile .. MaxId
      /\ UNCHANGED <<byname, byid, freed, delq>>
      /\ InNoQueue(name, why) \/ InHalf(name, why) \/ InQueue(name, why) \/ InNew(name, why)
  BY PlaceCases
<1>2. DOMAIN nameOf \subseteq DOMAIN nameOf' /\ new \in DOMAIN nameOf' /\ new = Len(nameOf) + 1
  BY <1>1 DEF Longer
<1> HIDE DEF new, why
<1>3. TypesOfTables'
  BY <1>1, <1>2 DEF TypeOK, TypesOfTables
<1>4. /\ srcs \in [Caster -> SUBSET DOMAIN nameOf'] /\ todo \in [Caster -> SUBSET DOMAIN nameOf']
      /\ \A c \in Caster : addq[c] \in Seq(DOMAIN nameOf')
      /\ addq \in [Caster -> Seq(DOMAIN nameOf')]
  <2>1. srcs \in [Caster -> SUBSET DOMAIN nameOf'] /\ todo \in [Caster -> SUBSET DOMAIN nameOf']
    BY <1>2 DEF TypeOK
  <2>2. \A c \in Caster : addq[c] \in Seq(DOMAIN nameOf')
    BY <1>2, SeqGrows DEF TypeOK
  <2>3. addq \in [Caster -> Seq(DOMAIN nameOf')]
    BY <2>2 DEF TypeOK
  <2> QED BY <2>1, <2>2, <2>3
<1>5. /\ tbl \in Seq(Caster) /\ boot \in [Caster -> Boot] /\ delq \in [Caster -> Seq(Name)]
      /\ excuse \in [Name -> SUBSET Reason] /\ cause \subseteq Cause /\ prog \in {"runs", "crashed"}
  BY DEF TypeOK, Reason, Cause
<1>6. CASE InNoQueue(name, why)
  BY <1>1, <1>3, <1>4, <1>5, <1>6 DEF InNoQueue, threads, TypesOfThreads, TypesOfQueues
<1>7. CASE InHalf(name, why)
  BY <1>1, <1>3, <1>4, <1>5, <1>7 DEF InHalf, threads, TypesOfThreads, TypesOfQueues, Cause
<1>8. CASE InQueue(name, why)
  <2>1. PICK c \in Caster :
          /\ addq' = [addq EXCEPT ![c] = Append(@, new)]
          /\ cause' = IF addq[c] # <<>> \/ todo[c] # {} THEN cause \union {"burst"} ELSE cause
          /\ excuse' \in [Name -> SUBSET Reason]
          /\ UNCHANGED <<threads, prog>>
    BY <1>2, <1>8 DEF InQueue
  <2>2. Append(addq[c], new) \in Seq(DOMAIN nameOf')
    <3>1. addq[c] \in Seq(DOMAIN nameOf') /\ new \in DOMAIN nameOf'
      BY <1>2, <1>4
    <3> QED BY <3>1
  <2>3. addq' \in [Caster -> Seq(DOMAIN nameOf')]
    BY <1>4, <2>1, <2>2
  <2>4. cause' \subseteq Cause
    BY <1>5, <2>1 DEF Cause
  <2> QED BY <1>1, <1>3, <1>4, <1>5, <2>1, <2>3, <2>4 DEF threads, TypesOfThreads, TypesOfQueues
<1>9. CASE InNew(name, why)
  <2>1. /\ boot' = [boot EXCEPT ![NCaster + 1] = "off"]
        /\ todo' = [todo EXCEPT ![NCaster + 1] = {new}]
        /\ tbl' = Append(tbl, NCaster + 1) /\ cause' = cause \union {"new_caster"}
        /\ excuse' \in [Name -> SUBSET Reason] /\ UNCHANGED <<addq, prog>>
    BY <1>2, <1>9 DEF InNew
  <2>2. boot' \in [Caster -> Boot] /\ todo' \in [Caster -> SUBSET DOMAIN nameOf']
    <3>1. {new} \in SUBSET DOMAIN nameOf'
      BY <1>2
    <3>2. "off" \in Boot
      BY DEF Boot
    <3> QED BY <1>4, <1>5, <2>1, <3>1, <3>2
  <2>3. tbl' \in Seq(Caster)
    BY <1>5, <2>1, CasterNumbers
  <2>4. cause' \subseteq Cause
    BY <1>5, <2>1 DEF Cause
  <2> QED BY <1>1, <1>3, <1>4, <1>5, <2>1, <2>2, <2>3, <2>4 DEF TypesOfThreads, TypesOfQueues
<1> QED BY <1>1, <1>6, <1>7, <1>8, <1>9

\* The commands.
LEMMA CommandTypes ==
  /\ Idle \in Command
  /\ \A i \in Id, name \in Name : /\ [op |-> "tell", id |-> i, name |-> name] \in Command
                                  /\ [op |-> "del", id |-> i, name |-> name] \in Command
BY DEF Command

\* A deletion is queued.
LEMMA DeletionAt ==
  ASSUME TypeOK, NEW name \in Name, NEW because \in SUBSET Cause, NEW why \in SUBSET Reason,
         QueueDeletion(name, because, why)
  PROVE  /\ delq' \in [Caster -> Seq(Name)]
         /\ \A c \in Caster : delq'[c] = IF boot[c] = "ready" THEN Append(delq[c], name) ELSE delq[c]
         /\ prog' = IF \E c \in Caster : boot[c] = "half" THEN "crashed" ELSE prog
         /\ cause' \subseteq Cause /\ cause \union because \subseteq cause'
         /\ (\E c \in Caster : boot[c] = "half") => "half_made" \in cause'
         /\ excuse' \in [Name -> SUBSET Reason]
         /\ \A n \in Name : n # name => excuse'[n] = excuse[n]
         /\ excuse[name] \union why \subseteq excuse'[name]
         /\ (\E c \in 1 .. NCaster : boot[c] \in {"none", "off"}) => "no_thread" \in excuse'[name]
         /\ wanted' = [wanted EXCEPT ![name] = "deleted"]
<1> DEFINE late == \E c \in Caster : c <= NCaster /\ boot[c] \in {"none", "off"}
           also == why \union (IF late THEN {"no_thread"} ELSE {})
<1>1. delq \in [Caster -> Seq(Name)] /\ cause \subseteq Cause /\ excuse \in [Name -> SUBSET Reason]
  BY DEF TypeOK, Cause, Reason
<1>2. \A c \in Caster : delq'[c] = IF boot[c] = "ready" THEN Append(delq[c], name) ELSE delq[c]
  BY DEF QueueDeletion
<1>3. delq' \in [Caster -> Seq(Name)]
  <2>1. \A c \in Caster : Append(delq[c], name) \in Seq(Name)
    BY <1>1
  <2> QED BY <1>1, <2>1 DEF QueueDeletion
<1>4. /\ prog' = IF \E c \in Caster : boot[c] = "half" THEN "crashed" ELSE prog
      /\ cause' = cause \union because \union (IF \E c \in Caster : boot[c] = "half" THEN {"half_made"} ELSE {})
      /\ Excuse(name, also)
      /\ wanted' = [wanted EXCEPT ![name] = "deleted"]
  BY DEF QueueDeletion
<1>5. also \in SUBSET Reason
  BY DEF Reason
<1>6. /\ excuse' \in [Name -> SUBSET Reason]
      /\ \A n \in Name : excuse'[n] = IF n = name THEN excuse[n] \union also ELSE excuse[n]
  <2>1. Excuse(name, also)
    BY <1>4
  <2> HIDE DEF also, late
  <2> QED BY <1>1, <1>5, <2>1, ExcuseAt
<1>7. (\E c \in 1 .. NCaster : boot[c] \in {"none", "off"}) => late
  BY CasterNumbers
<1>8. cause' \subseteq Cause /\ cause \union because \subseteq cause'
      /\ ((\E c \in Caster : boot[c] = "half") => "half_made" \in cause')
  BY <1>1, <1>4 DEF Cause
<1>9. excuse[name] \union why \subseteq excuse'[name] /\ (late => "no_thread" \in excuse'[name])
  BY <1>6
<1> HIDE DEF also, late
<1> QED BY <1>2, <1>3, <1>4, <1>6, <1>7, <1>8, <1>9

LEMMA TypesStep ==
  ASSUME TypeOK, Casters, Commands, prog = "runs", Next
  PROVE  TypeOK'
<1>0. /\ TypesOfTables /\ TypesOfThreads /\ TypesOfQueues /\ TypesOfRest
      /\ \A k \in DOMAIN tbl : boot[tbl[k]] # "none"
  BY TypeParts DEF Casters
<1>a. DOMAIN nameOf = 1 .. Len(nameOf) /\ DOMAIN nameOf \subseteq Id
  <2>1. nameOf \in Seq(Name) /\ Len(nameOf) \in NFile .. MaxId
    BY DEF TypeOK
  <2>2. DOMAIN nameOf = 1 .. Len(nameOf)
    BY <2>1
  <2> QED BY <2>1, <2>2, Sizes DEF Id
<1>b. \A i \in DOMAIN nameOf : nameOf[i] \in Name
  BY <1>0 DEF TypesOfTables
<1>1. ASSUME NEW c \in Caster, StartCaster(c) \/ Mark(c) \/ Ready(c) \/ CloseCaster(c)
      PROVE  TypeOK'
  <2>1. UNCHANGED <<nameOf, byname, byid, freed, queues, api, told, wanted, excuse, phase>>
    BY <1>1 DEF StartCaster, Mark, Ready, CloseCaster, tables, history
  <2>2. tbl' \in Seq(Caster)
    BY <1>0, <1>1 DEF StartCaster, Mark, Ready, CloseCaster, TypesOfThreads
  <2>3. boot' \in [Caster -> Boot] /\ srcs' \in [Caster -> SUBSET DOMAIN nameOf]
    BY <1>0, <1>1 DEF StartCaster, Mark, Ready, CloseCaster, TypesOfThreads, Boot
  <2>4. todo' \in [Caster -> SUBSET DOMAIN nameOf]
    <3>1. Share(c) \subseteq DOMAIN nameOf
      <4>1. Share(c) \subseteq 1 .. NFile
        BY Shares
      <4>2. 1 .. NFile \subseteq 1 .. Len(nameOf)
        BY <1>0, Sizes DEF TypesOfTables
      <4> QED BY <1>a, <4>1, <4>2
    <3>2. UNCHANGED todo \/ todo' = [todo EXCEPT ![c] = Share(c)]
      BY <1>1 DEF StartCaster, Mark, Ready, CloseCaster
    <3> QED BY <1>0, <3>1, <3>2 DEF TypesOfThreads
  <2>5. cause' \subseteq Cause /\ prog' \in {"runs", "crashed"}
    BY <1>0, <1>1 DEF StartCaster, Mark, Ready, CloseCaster, history, TypesOfRest, Cause
  <2> QED
    BY <1>0, <2>1, <2>2, <2>3, <2>4, <2>5, TypesAfter
    DEF TypesOfTables, TypesOfThreads, TypesOfQueues, TypesOfRest, queues
<1>2. ASSUME NEW c \in Caster, StartSource(c)
      PROVE  TypeOK'
  <2>1. PICK i \in todo[c] :
          /\ todo' = [todo EXCEPT ![c] = @ \ {i}]
          /\ \/ /\ srcs' = [srcs EXCEPT ![c] = @ \union {i}]
                /\ prog' = IF i \in byname THEN prog ELSE "crashed"
                /\ UNCHANGED excuse
             \/ Excuse(nameOf[i], {"not_started"}) /\ UNCHANGED <<srcs, prog>>
    BY <1>2 DEF StartSource
  <2>2. UNCHANGED <<nameOf, byname, byid, freed, tbl, boot, queues, api, told, wanted, cause, phase>>
    BY <1>2 DEF StartSource, tables
  <2>3. i \in DOMAIN nameOf
    BY <1>0 DEF TypesOfThreads
  <2>4. todo' \in [Caster -> SUBSET DOMAIN nameOf] /\ srcs' \in [Caster -> SUBSET DOMAIN nameOf]
    BY <1>0, <2>1, <2>3 DEF TypesOfThreads
  <2>5. excuse' \in [Name -> SUBSET Reason]
    <3>1. {"not_started"} \in SUBSET Reason
      BY DEF Reason
    <3> QED BY <1>0, <1>b, <2>1, <2>3, <3>1, ExcuseAt DEF TypesOfRest
  <2>6. prog' \in {"runs", "crashed"}
    BY <1>0, <2>1 DEF TypesOfRest
  <2> QED
    BY <1>0, <2>2, <2>4, <2>5, <2>6, TypesAfter
    DEF TypesOfTables, TypesOfThreads, TypesOfQueues, TypesOfRest, queues
<1>3. ASSUME NEW c \in Caster, DoAdd(c)
      PROVE  TypeOK'
  <2> DEFINE i == Head(addq[c])
  <2>1. /\ addq[c] # <<>> /\ addq' = [addq EXCEPT ![c] = Tail(@)]
        /\ UNCHANGED <<nameOf, threads, delq, api, told, wanted, cause, phase, prog>>
    BY <1>3 DEF DoAdd
  <2>2. i \in DOMAIN nameOf /\ Tail(addq[c]) \in Seq(DOMAIN nameOf)
    <3>1. addq[c] \in Seq(DOMAIN nameOf)
      BY <1>0 DEF TypesOfQueues
    <3> QED BY <2>1, <3>1, SeqEnds
  <2>3. \/ freed' = freed \union {i} /\ UNCHANGED <<srcs, byname, byid, excuse>>
        \/ /\ freed' = freed \union {i} /\ Excuse(nameOf[i], {"not_started"})
           /\ UNCHANGED <<srcs, byname, byid>>
        \/ /\ srcs' = [srcs EXCEPT ![c] = @ \union {i}]
           /\ byname' = byname \union {i} /\ byid' = byid \union {i}
           /\ UNCHANGED <<freed, excuse>>
    BY <1>3 DEF DoAdd
  <2> HIDE DEF i
  <2>4. addq' \in [Caster -> Seq(DOMAIN nameOf)]
    BY <1>0, <2>1, <2>2 DEF TypesOfQueues
  <2>5. excuse' \in [Name -> SUBSET Reason]
    <3>1. {"not_started"} \in SUBSET Reason
      BY DEF Reason
    <3> QED BY <1>0, <1>b, <2>2, <2>3, <3>1, ExcuseAt DEF TypesOfRest
  <2>6. srcs' \in [Caster -> SUBSET DOMAIN nameOf]
    BY <1>0, <2>2, <2>3 DEF TypesOfThreads
  <2>7. byname' \subseteq DOMAIN nameOf /\ byid' \subseteq DOMAIN nameOf /\ freed' \subseteq DOMAIN nameOf
    BY <1>0, <2>2, <2>3 DEF TypesOfTables
  <2> QED
    BY <1>0, <2>1, <2>4, <2>5, <2>6, <2>7, TypesAfter
    DEF TypesOfTables, TypesOfThreads, TypesOfQueues, TypesOfRest, threads
<1>4. ASSUME NEW c \in Caster, DoDel(c)
      PROVE  TypeOK'
  <2> DEFINE name == Head(delq[c])
  <2>1. /\ delq[c] # <<>> /\ delq' = [delq EXCEPT ![c] = Tail(@)]
        /\ UNCHANGED <<nameOf, freed, threads, addq, api, told, wanted, cause, phase>>
    BY <1>4 DEF DoDel
  <2>2. name \in Name /\ Tail(delq[c]) \in Seq(Name)
    <3>1. delq[c] \in Seq(Name)
      BY <1>0 DEF TypesOfQueues
    <3> QED BY <2>1, <3>1, SeqEnds
  <2>3. srcs' = [srcs EXCEPT ![c] = @ \ Named(srcs[c], name)] \/ UNCHANGED srcs
    BY <1>4 DEF DoDel
  <2>4. byname' \subseteq byname /\ byid' \subseteq byid /\ prog' \in {"runs", "crashed"}
    BY <1>0, <1>4 DEF DoDel, Unregister, TypesOfRest
  <2>5. UNCHANGED excuse \/ Excuse(name, {"name_freed"})
    BY <1>4 DEF DoDel
  <2> HIDE DEF name
  <2>6. excuse' \in [Name -> SUBSET Reason]
    <3>1. {"name_freed"} \in SUBSET Reason
      BY DEF Reason
    <3> QED BY <1>0, <2>2, <2>5, <3>1, ExcuseAt DEF TypesOfRest
  <2>7. srcs' \in [Caster -> SUBSET DOMAIN nameOf]
    BY <1>0, <2>3 DEF TypesOfThreads
  <2>8. delq' \in [Caster -> Seq(Name)]
    BY <1>0, <2>1, <2>2 DEF TypesOfQueues
  <2> QED
    BY <1>0, <2>1, <2>4, <2>6, <2>7, <2>8, TypesAfter
    DEF TypesOfTables, TypesOfThreads, TypesOfQueues, TypesOfRest, threads
<1>5. ASSUME NEW name \in Name, AddSource(name)
      PROVE  TypeOK'
  <2>1. wanted' \in [Name -> {"added", "deleted"}] /\ UNCHANGED <<srcs, told, phase>>
    BY <1>0, <1>5 DEF AddSource, TypesOfRest
  <2>2. CASE Named(byname, name) # {}
    <3>1. Excuse(name, Raced(name)) /\ UNCHANGED <<tables, threads, queues, api, cause, prog>>
      BY <1>5, <2>2 DEF AddSource
    <3>2. excuse' \in [Name -> SUBSET Reason]
      <4>1. Raced(name) \in SUBSET Reason
        BY DEF Raced, Reason
      <4> QED BY <1>0, <3>1, <4>1, ExcuseAt DEF TypesOfRest
    <3> QED
      BY <1>0, <2>1, <3>1, <3>2, TypesAfter
      DEF TypesOfTables, TypesOfThreads, TypesOfQueues, TypesOfRest, tables, threads, queues
  <2>3. CASE Named(byname, name) = {}
    <3>1. Place(name, {}) /\ api' = [op |-> "tell", id |-> Len(nameOf'), name |-> name]
      BY <1>5, <2>3 DEF AddSource
    <3>2. {} \in SUBSET Reason
      OBVIOUS
    <3>3. /\ TypesOfTables' /\ TypesOfThreads' /\ TypesOfQueues'
          /\ excuse' \in [Name -> SUBSET Reason] /\ cause' \subseteq Cause /\ prog' \in {"runs", "crashed"}
      BY <1>0, <2>1, <3>1, <3>2, PlaceTypes
    <3>4. Len(nameOf') \in Id
      <4>1. Len(nameOf') \in NFile .. MaxId
        BY <3>3 DEF TypesOfTables
      <4> QED BY <4>1, Sizes DEF Id
    <3>5. api' \in Command
      <4>1. [op |-> "tell", id |-> Len(nameOf'), name |-> name] \in Command
        BY <3>4, CommandTypes
      <4> QED BY ONLY <3>1, <4>1
    <3> QED BY <1>0, <2>1, <3>3, <3>5, TypesAfter DEF TypesOfRest
  <2> QED BY <2>2, <2>3
<1>6. ASSUME NEW name \in Name, AddUntold(name)
      PROVE  TypeOK'
  <2>1. wanted' \in [Name -> {"added", "deleted"}] /\ UNCHANGED <<srcs, told, phase, api>>
    BY <1>0, <1>6 DEF AddUntold, TypesOfRest
  <2>2. {"untold"} \in SUBSET Reason
    BY DEF Reason
  <2>3. /\ TypesOfTables' /\ TypesOfThreads' /\ TypesOfQueues'
        /\ excuse' \in [Name -> SUBSET Reason] /\ cause' \subseteq Cause /\ prog' \in {"runs", "crashed"}
    <3>1. Place(name, {"untold"})
      BY <1>6 DEF AddUntold
    <3> QED BY <1>0, <2>1, <2>2, <3>1, PlaceTypes
  <2> QED BY <1>0, <2>1, <2>3, TypesAfter DEF TypesOfRest
<1>7. ASSUME NEW name \in Name, FindSource(name)
      PROVE  TypeOK'
  <2>1. UNCHANGED <<tables, threads, srcs, queues, told, cause, phase, prog>>
    BY <1>7 DEF FindSource
  <2>2. CASE Named(byname, name) = {}
    <3>1. Excuse(name, Raced(name)) /\ wanted' = [wanted EXCEPT ![name] = "deleted"] /\ UNCHANGED api
      BY <1>7, <2>2 DEF FindSource
    <3>2. excuse' \in [Name -> SUBSET Reason]
      <4>1. Raced(name) \in SUBSET Reason
        BY DEF Raced, Reason
      <4> QED BY <1>0, <3>1, <4>1, ExcuseAt DEF TypesOfRest
    <3>3. wanted' \in [Name -> {"added", "deleted"}]
      BY <1>0, <3>1 DEF TypesOfRest
    <3> QED
      BY <1>0, <2>1, <3>1, <3>2, <3>3, TypesAfter
      DEF TypesOfTables, TypesOfThreads, TypesOfQueues, TypesOfRest, tables, threads, queues
  <2>3. CASE Named(byname, name) # {}
    <3>1. PICK i \in Named(byname, name) : api' = [op |-> "del", id |-> i, name |-> name]
      BY <1>7, <2>3 DEF FindSource
    <3>2. UNCHANGED <<wanted, excuse>>
      BY <1>7, <2>3 DEF FindSource
    <3>3. i \in Id
      BY <1>0, <1>a DEF Named, TypesOfTables
    <3>4. api' \in Command
      BY <3>1, <3>3, CommandTypes
    <3> QED
      BY <1>0, <2>1, <3>2, <3>4, TypesAfter
      DEF TypesOfTables, TypesOfThreads, TypesOfQueues, TypesOfRest, tables, threads, queues
  <2> QED BY <2>2, <2>3
<1>8. CASE Tell
  <2>1. told' \subseteq told \union {api.id} /\ api' = Idle /\ api.op = "tell"
    BY <1>8 DEF Tell
  <2>2. told' \subseteq DOMAIN nameOf /\ api' \in Command
    <3>1. api # Idle
      BY <1>0, <2>1, ApiFacts DEF TypesOfRest
    <3>2. api.id \in DOMAIN nameOf
      BY <3>1 DEF Commands
    <3> QED BY <1>0, <2>1, <3>2, CommandTypes DEF TypesOfTables
  <2>3. UNCHANGED <<tables, threads, srcs, queues, history, phase, prog>>
    BY <1>8 DEF Tell
  <2> QED
    BY <1>0, <2>2, <2>3, TypesAfter
    DEF TypesOfTables, TypesOfThreads, TypesOfQueues, TypesOfRest, tables, threads, queues, history
<1>9. CASE DelSource
  <2> DEFINE because == CASE api.id <= NFile -> {"table_freed"}
                          [] api.name \in VrsNames -> {"no_client"}
                          [] OTHER -> {}
             why == IF Queued(api.name) THEN {"raced"} ELSE {}
  <2>1. told' \subseteq told /\ api' = Idle /\ api.op = "del" /\ QueueDeletion(api.name, because, why)
        /\ UNCHANGED <<tables, threads, srcs, addq, phase>>
    BY <1>9 DEF DelSource
  <2>2. api.name \in Name
    BY <1>0, <2>1, ApiFacts DEF TypesOfRest
  <2>3. because \in SUBSET Cause /\ why \in SUBSET Reason
    BY DEF Cause, Reason
  <2> HIDE DEF because, why
  <2>4. /\ delq' \in [Caster -> Seq(Name)] /\ cause' \subseteq Cause
        /\ excuse' \in [Name -> SUBSET Reason] /\ wanted' = [wanted EXCEPT ![api.name] = "deleted"]
        /\ prog' = IF \E c \in Caster : boot[c] = "half" THEN "crashed" ELSE prog
    BY <2>1, <2>2, <2>3, DeletionAt
  <2>5. wanted' \in [Name -> {"added", "deleted"}] /\ prog' \in {"runs", "crashed"}
    BY <1>0, <2>4 DEF TypesOfRest
  <2>6. told' \subseteq DOMAIN nameOf /\ api' \in Command
    BY <1>0, <2>1, CommandTypes DEF TypesOfTables
  <2> QED
    BY <1>0, <2>1, <2>4, <2>5, <2>6, TypesAfter
    DEF TypesOfTables, TypesOfThreads, TypesOfQueues, TypesOfRest, tables, threads
<1>10. ASSUME NEW name \in Name, DelVsta(name)
       PROVE  TypeOK'
  <2>1. QueueDeletion(name, {"no_client"}, Raced(name))
        /\ UNCHANGED <<tables, threads, srcs, addq, api, told, phase>>
    BY <1>10 DEF DelVsta
  <2>2. {"no_client"} \in SUBSET Cause /\ Raced(name) \in SUBSET Reason
    BY DEF Cause, Reason, Raced
  <2>3. /\ delq' \in [Caster -> Seq(Name)] /\ cause' \subseteq Cause
        /\ excuse' \in [Name -> SUBSET Reason] /\ wanted' = [wanted EXCEPT ![name] = "deleted"]
        /\ prog' = IF \E c \in Caster : boot[c] = "half" THEN "crashed" ELSE prog
    BY <2>1, <2>2, DeletionAt
  <2>4. wanted' \in [Name -> {"added", "deleted"}] /\ prog' \in {"runs", "crashed"}
    BY <1>0, <2>3 DEF TypesOfRest
  <2> QED
    BY <1>0, <2>1, <2>3, <2>4, TypesAfter
    DEF TypesOfTables, TypesOfThreads, TypesOfQueues, TypesOfRest, tables, threads
<1>11. CASE Close \/ FreeNtrip
  <2>1. /\ UNCHANGED <<nameOf, freed, boot, todo, srcs, queues, api, told, wanted, excuse>>
        /\ phase' \in {"open", "closing", "closed"}
    BY <1>11 DEF Close, FreeNtrip, tables, threads, history
  <2>2. tbl' \in Seq(Caster)
    <3>1. CASE Close
      BY <1>0, <3>1 DEF Close, threads, TypesOfThreads
    <3>2. CASE FreeNtrip
      <4>1. tbl' = <<>>
        BY <3>2 DEF FreeNtrip
      <4> QED BY <4>1
    <3> QED BY <1>11, <3>1, <3>2
  <2>3. byname' \subseteq byname /\ byid' \subseteq byid
    BY <1>11 DEF Close, FreeNtrip, tables
  <2>4. cause' \subseteq Cause /\ prog' \in {"runs", "crashed"}
    BY <1>0, <1>11 DEF Close, FreeNtrip, history, TypesOfRest, Cause
  <2> QED
    BY <1>0, <2>1, <2>2, <2>3, <2>4, TypesAfter
    DEF TypesOfTables, TypesOfThreads, TypesOfQueues, TypesOfRest, queues
<1> QED
  BY <1>1, <1>2, <1>3, <1>4, <1>5, <1>6, <1>7, <1>8, <1>9, <1>10, <1>11 DEF Next, CasterStep

-----------------------------------------------------------------------------
(* What only grows.                                                        *)

LEMMA ElementsAppend ==
  ASSUME NEW S, NEW q \in Seq(S), NEW x \in S
  PROVE  ElementsOf(Append(q, x)) = ElementsOf(q) \union {x}
<1>1. /\ DOMAIN Append(q, x) = 1 .. Len(q) + 1 /\ DOMAIN q = 1 .. Len(q) /\ Len(q) \in Nat
      /\ \A i \in 1 .. Len(q) : Append(q, x)[i] = q[i]
      /\ Append(q, x)[Len(q) + 1] = x
  OBVIOUS
<1>2. \A i \in 1 .. Len(q) + 1 : i \in 1 .. Len(q) \/ i = Len(q) + 1
  BY ONLY <1>1
<1>3. Len(q) + 1 \in 1 .. Len(q) + 1 /\ 1 .. Len(q) \subseteq 1 .. Len(q) + 1
  BY ONLY <1>1
<1> QED BY <1>1, <1>2, <1>3 DEF ElementsOf

LEMMA ElementsTail ==
  ASSUME NEW S, NEW q \in Seq(S), q # <<>>
  PROVE  /\ ElementsOf(q) = {Head(q)} \union ElementsOf(Tail(q)) /\ ElementsOf(q) \subseteq S
         /\ Head(q) \in ElementsOf(q) /\ ElementsOf(Tail(q)) \subseteq ElementsOf(q)
<1>1. /\ Len(q) \in Nat \ {0} /\ DOMAIN q = 1 .. Len(q) /\ DOMAIN Tail(q) = 1 .. Len(q) - 1
      /\ \A i \in 1 .. Len(q) - 1 : Tail(q)[i] = q[i + 1]
      /\ Head(q) = q[1] /\ \A i \in 1 .. Len(q) : q[i] \in S
  OBVIOUS
<1>2. 1 \in 1 .. Len(q) /\ \A i \in 1 .. Len(q) - 1 : i + 1 \in 1 .. Len(q)
  BY ONLY <1>1
<1>3. \A i \in 1 .. Len(q) : i = 1 \/ (i - 1 \in 1 .. Len(q) - 1 /\ (i - 1) + 1 = i)
  BY ONLY <1>1
<1>4. ASSUME NEW x \in ElementsOf(q), x # Head(q)
      PROVE  x \in ElementsOf(Tail(q))
  <2>1. PICK i \in 1 .. Len(q) : x = q[i]
    BY <1>1 DEF ElementsOf
  <2>2. i - 1 \in 1 .. Len(q) - 1 /\ (i - 1) + 1 = i
    BY <1>1, <1>3, <1>4, <2>1
  <2>3. Tail(q)[i - 1] = x
    BY <1>1, <2>1, <2>2
  <2> QED BY <1>1, <2>2, <2>3 DEF ElementsOf
<1>5. Head(q) \in ElementsOf(q) /\ ElementsOf(q) \subseteq S
  BY <1>1, <1>2 DEF ElementsOf
<1>6. ASSUME NEW x \in ElementsOf(Tail(q))
      PROVE  x \in ElementsOf(q)
  BY <1>1, <1>2 DEF ElementsOf
<1> QED BY <1>4, <1>5, <1>6

LEMMA ElementsEmpty == ElementsOf(<<>>) = {}
BY DEF ElementsOf

\* Names, excuses and causes.
Grown ==
  /\ \A n \in Name : excuse[n] \subseteq excuse'[n]
  /\ cause \subseteq cause'
  /\ \A i \in DOMAIN nameOf : i \in DOMAIN nameOf' /\ nameOf'[i] = nameOf[i]

LEMMA GrowStep ==
  ASSUME TypeOK, Casters, prog = "runs", Next
  PROVE  Grown
<1>0. excuse \in [Name -> SUBSET Reason] /\ api \in Command
  BY DEF TypeOK, Reason
<1>a. ASSUME NEW name \in Name, NEW why, Excuse(name, why)
      PROVE  \A n \in Name : excuse[n] \subseteq excuse'[n]
  BY <1>0, <1>a DEF Excuse
<1>b. \A i \in DOMAIN nameOf : nameOf[i] \in Name
  BY DEF TypeOK
<1>c. ASSUME NEW name \in Name, NEW also \in SUBSET Reason, Place(name, also)
      PROVE  Grown
  <2> DEFINE new == Len(nameOf) + 1
             why == Raced(name) \union also
  <2>1. /\ Longer(new)
        /\ InNoQueue(name, why) \/ InHalf(name, why) \/ InQueue(name, why) \/ InNew(name, why)
    BY <1>c, PlaceCases DEF Casters
  <2> HIDE DEF new, why
  <2>2. cause \subseteq cause'
    BY <2>1 DEF InNoQueue, InHalf, InQueue, InNew
  <2>3. \A n \in Name : excuse[n] \subseteq excuse'[n]
    BY <2>1 DEF InNoQueue, InHalf, InQueue, InNew
  <2> QED BY <2>1, <2>2, <2>3 DEF Grown, Longer
<1>1. CASE UNCHANGED <<nameOf, excuse>> /\ cause \subseteq cause'
  BY <1>1 DEF Grown
<1>2. ASSUME NEW name \in Name, NEW why, Excuse(name, why), UNCHANGED <<nameOf, cause>>
      PROVE  Grown
  BY <1>2, <1>a DEF Grown
<1>3. ASSUME NEW c \in Caster, StartSource(c) \/ DoAdd(c) \/ DoDel(c)
      PROVE  Grown
  <2>1. UNCHANGED <<nameOf, cause>>
    BY <1>3 DEF StartSource, DoAdd, DoDel, tables
  <2>2. CASE StartSource(c)
    <3>1. PICK i \in todo[c] : UNCHANGED excuse \/ Excuse(nameOf[i], {"not_started"})
      BY <2>2 DEF StartSource
    <3>2. i \in DOMAIN nameOf
      BY DEF TypeOK
    <3> QED BY <1>1, <1>2, <1>b, <2>1, <3>1, <3>2
  <2>3. CASE DoAdd(c)
    <3>1. UNCHANGED excuse \/ Excuse(nameOf[Head(addq[c])], {"not_started"})
      BY <2>3 DEF DoAdd
    <3>2. Head(addq[c]) \in DOMAIN nameOf
      BY <2>3, SeqEnds DEF DoAdd, TypeOK
    <3> QED BY <1>1, <1>2, <1>b, <2>1, <3>1, <3>2
  <2>4. CASE DoDel(c)
    <3>1. UNCHANGED excuse \/ Excuse(Head(delq[c]), {"name_freed"})
      BY <2>4 DEF DoDel
    <3>2. Head(delq[c]) \in Name
      BY <2>4, SeqEnds DEF DoDel, TypeOK
    <3> QED BY <1>1, <1>2, <2>1, <3>1, <3>2
  <2> QED BY <1>3, <2>2, <2>3, <2>4
<1>4. ASSUME NEW name \in Name, AddSource(name) \/ AddUntold(name) \/ FindSource(name)
      PROVE  Grown
  <2>1. CASE Place(name, {}) \/ Place(name, {"untold"})
    BY <1>c, <2>1 DEF Reason
  <2>2. CASE UNCHANGED <<nameOf, cause>> /\ (UNCHANGED excuse \/ Excuse(name, Raced(name)))
    BY <1>1, <1>2, <2>2
  <2> QED BY <1>4, <2>1, <2>2 DEF AddSource, AddUntold, FindSource, tables
<1>5. CASE DelSource
  <2>1. api.name \in Name
    BY <1>0, <1>5, ApiFacts DEF DelSource
  <2>2. cause \subseteq cause' /\ UNCHANGED nameOf
    BY <1>5 DEF DelSource, QueueDeletion, tables
  <2>3. \E why : Excuse(api.name, why)
    BY <1>5 DEF DelSource, QueueDeletion
  <2> QED BY <1>a, <2>1, <2>2, <2>3 DEF Grown
<1>6. ASSUME NEW name \in Name, DelVsta(name)
      PROVE  Grown
  <2>1. cause \subseteq cause' /\ UNCHANGED nameOf
    BY <1>6 DEF DelVsta, QueueDeletion, tables
  <2>2. \E why : Excuse(name, why)
    BY <1>6 DEF DelVsta, QueueDeletion
  <2> QED BY <1>a, <2>1, <2>2 DEF Grown
<1> QED
  BY <1>1, <1>3, <1>4, <1>5, <1>6
  DEF Next, CasterStep, StartCaster, Mark, Ready, CloseCaster, Tell, Close, FreeNtrip, tables, history

-----------------------------------------------------------------------------
(* The threads, the commands and the sources of the file.                  *)

\* A step of one caster that runs.
LEMMA CastersRunning ==
  ASSUME Casters, NEW c \in Caster, boot[c] = "ready", UNCHANGED <<boot, tbl, phase>>,
         \A d \in Caster : d # c => UNCHANGED <<srcs[d], todo[d], addq[d], delq[d]>>
  PROVE  Casters'
BY DEF Casters

LEMMA CastersStep ==
  ASSUME TypeOK, Casters, prog = "runs", Next
  PROVE  Casters'
<1>0. /\ boot \in [Caster -> Boot] /\ DOMAIN srcs = Caster /\ DOMAIN todo = Caster
      /\ DOMAIN addq = Caster /\ DOMAIN delq = Caster /\ tbl \in Seq(Caster)
      /\ \A k \in DOMAIN tbl : boot[tbl[k]] # "none"
  BY DEF TypeOK, Casters
<1>1. CASE UNCHANGED <<boot, srcs, todo, addq, delq, tbl, phase>>
  BY <1>1 DEF Casters
<1>2. ASSUME NEW c \in Caster, StartSource(c) \/ DoAdd(c) \/ DoDel(c)
      PROVE  Casters'
  <2>1. boot[c] = "ready" /\ UNCHANGED <<boot, tbl, phase>>
    BY <1>2 DEF StartSource, DoAdd, DoDel, threads
  <2>2. \A d \in Caster : d # c => UNCHANGED <<srcs[d], todo[d], addq[d], delq[d]>>
    BY <1>0, <1>2 DEF StartSource, DoAdd, DoDel, threads, queues
  <2> QED BY <2>1, <2>2, CastersRunning
\* A caster that goes into the table.
<1>a. ASSUME NEW c \in Caster, boot[c] = "none", boot' = [boot EXCEPT ![c] = "off"],
             tbl' = Append(tbl, c), NEW S, todo' = [todo EXCEPT ![c] = S],
             UNCHANGED <<srcs, addq, delq, phase>>,
             phase = "open" \/ c = NCaster + 1
      PROVE  Casters'
  <2>1. \A d \in Caster : /\ boot'[d] = IF d = c THEN "off" ELSE boot[d]
                          /\ d # c => todo'[d] = todo[d]
    BY <1>0, <1>a
  <2>2. ElementsOf(tbl') = ElementsOf(tbl) \union {c}
    BY <1>0, <1>a, ElementsAppend
  <2>3. \A k \in DOMAIN tbl' : tbl'[k] = c \/ (k \in DOMAIN tbl /\ tbl'[k] = tbl[k])
    BY <1>0, <1>a
  <2>4. \A k \in DOMAIN tbl : tbl[k] \in Caster
    BY <1>0
  <2>5. \A d \in 1 .. NCaster : d \in Caster /\ (c = d => phase = "open")
    BY <1>a, CasterNumbers
  <2> QED BY <1>0, <1>a, <2>1, <2>2, <2>3, <2>4, <2>5 DEF Casters
<1>3. ASSUME NEW c \in Caster, StartCaster(c)
      PROVE  Casters'
  BY <1>a, <1>3 DEF StartCaster, queues
<1>4. ASSUME NEW c \in Caster, Mark(c) \/ Ready(c)
      PROVE  Casters'
  <2>1. /\ boot[c] \in {"off", "half"} /\ \A d \in Caster : boot'[d] = IF d = c THEN boot'[c] ELSE boot[d]
        /\ boot'[c] \in {"half", "ready"} /\ (boot'[c] = "half" => boot[c] = "off")
        /\ UNCHANGED <<srcs, todo, addq, delq, tbl, phase>>
    BY <1>0, <1>4 DEF Mark, Ready, queues
  <2>2. \A k \in DOMAIN tbl : tbl[k] \in Caster
    BY <1>0
  <2>3. 1 .. NCaster \subseteq Caster
    BY CasterNumbers
  <2> QED BY <2>1, <2>2, <2>3 DEF Casters
<1>5. ASSUME NEW c \in Caster, CloseCaster(c)
      PROVE  Casters'
  <2>1. phase = "closing" /\ UNCHANGED <<todo, addq, delq, tbl, phase>>
    BY <1>5 DEF CloseCaster, queues
  <2>2. \/ UNCHANGED <<boot, srcs>>
        \/ /\ boot[c] = "ready" /\ todo[c] = {}
           /\ \A d \in Caster : /\ boot'[d] = IF d = c THEN "stopped" ELSE boot[d]
                                /\ srcs'[d] = IF d = c THEN {} ELSE srcs[d]
    BY <1>0, <1>5 DEF CloseCaster
  <2>3. \A k \in DOMAIN tbl : tbl[k] \in Caster
    BY <1>0
  <2>4. 1 .. NCaster \subseteq Caster
    BY CasterNumbers
  <2> QED BY <2>1, <2>2, <2>3, <2>4 DEF Casters
\* A source that is placed.
<1>b. ASSUME NEW name \in Name, NEW also \in SUBSET Reason, Place(name, also), UNCHANGED <<srcs, phase>>
      PROVE  Casters'
  <2> DEFINE why == Raced(name) \union also
  <2>1. /\ InNoQueue(name, why) \/ InHalf(name, why) \/ InQueue(name, why) \/ InNew(name, why)
        /\ UNCHANGED delq
    BY <1>b, <1>0, PlaceCases
  <2> HIDE DEF why
  <2>2. CASE InNoQueue(name, why) \/ InHalf(name, why)
    BY <1>b, <1>1, <2>1, <2>2 DEF InNoQueue, InHalf, threads
  <2>3. CASE InQueue(name, why)
    <3>1. PICK c \in Caster : boot[c] = "ready" /\ UNCHANGED threads
                              /\ \A d \in Caster : d # c => addq'[d] = addq[d]
      BY <1>0, <2>3 DEF InQueue
    <3> QED BY <1>b, <2>1, <3>1, CastersRunning DEF threads
  <2>4. CASE InNew(name, why)
    BY <1>a, <1>b, <2>1, <2>4, CasterNumbers DEF InNew
  <2> QED BY <2>1, <2>2, <2>3, <2>4
<1>6. ASSUME NEW name \in Name, AddSource(name) \/ AddUntold(name)
      PROVE  Casters'
  <2>1. CASE Place(name, {}) \/ Place(name, {"untold"})
    BY <1>b, <1>6, <2>1 DEF AddSource, AddUntold, Reason
  <2>2. CASE UNCHANGED <<threads, queues, srcs, phase>>
    BY <1>1, <2>2 DEF threads, queues
  <2> QED BY <1>6, <2>1, <2>2 DEF AddSource, AddUntold
\* A deletion that is queued.
<1>7. ASSUME \A d \in Caster : boot[d] # "ready" => delq'[d] = delq[d],
             UNCHANGED <<boot, srcs, todo, addq, tbl, phase>>
      PROVE  Casters'
  BY <1>7 DEF Casters
<1>8. CASE DelSource \/ \E name \in Name : DelVsta(name)
  <2>1. /\ \A d \in Caster : boot[d] # "ready" => delq'[d] = delq[d]
        /\ UNCHANGED <<boot, srcs, todo, addq, tbl, phase>>
    BY <1>8 DEF DelSource, DelVsta, QueueDeletion, threads
  <2> QED BY <1>7, <2>1
<1>9. CASE Close
  BY <1>9 DEF Close, Casters, threads, queues
<1>10. CASE FreeNtrip
  <2>1. /\ phase = "closing" /\ phase' = "closed" /\ tbl' = <<>> /\ \A k \in DOMAIN tbl : boot[tbl[k]] = "stopped"
        /\ UNCHANGED <<boot, todo, srcs, addq, delq>>
    BY <1>10 DEF FreeNtrip, queues
  <2>2. ASSUME NEW c \in 1 .. NCaster
        PROVE  boot[c] = "stopped"
    <3>1. c \in Caster /\ boot[c] # "none"
      BY <2>1, CasterNumbers DEF Casters
    <3>2. c \in ElementsOf(tbl)
      BY <2>1, <3>1 DEF Casters
    <3> QED BY <2>1, <3>2 DEF ElementsOf
  <2>3. DOMAIN tbl' = {}
    BY <2>1
  <2> QED BY <2>1, <2>2, <2>3 DEF Casters
<1> QED
  BY <1>1, <1>2, <1>3, <1>4, <1>5, <1>6, <1>8, <1>9, <1>10
  DEF Next, CasterStep, FindSource, Tell, threads, queues, tables

LEMMA CommandsStep ==
  ASSUME TypeOK, Casters, Commands, prog = "runs", Next
  PROVE  Commands'
<1>0. \A i \in DOMAIN nameOf : i \in DOMAIN nameOf' /\ nameOf'[i] = nameOf[i]
  BY GrowStep DEF Grown
<1>1. CASE UNCHANGED <<api, phase>>
  BY <1>0, <1>1 DEF Commands
<1>2. CASE api' = Idle
  BY <1>2 DEF Commands
<1>3. ASSUME NEW name \in Name, AddSource(name), ~ UNCHANGED api
      PROVE  Commands'
  <2>1. /\ phase = "open" /\ UNCHANGED phase /\ name \notin VrsNames /\ Place(name, {})
        /\ api' = [op |-> "tell", id |-> Len(nameOf'), name |-> name]
    BY <1>3 DEF AddSource
  <2>2. nameOf' = Append(nameOf, name) /\ nameOf \in Seq(Name)
    BY <2>1 DEF Place, TypeOK
  <2>3. Len(nameOf') \in DOMAIN nameOf' /\ nameOf'[Len(nameOf')] = name
    BY <2>2
  <2>4. api'.id = Len(nameOf') /\ api'.name = name
    BY <2>1
  <2> QED BY <2>1, <2>3, <2>4 DEF Commands
<1>4. ASSUME NEW name \in Name, FindSource(name), ~ UNCHANGED api
      PROVE  Commands'
  <2>1. phase = "open" /\ UNCHANGED <<phase, nameOf>>
        /\ \E i \in Named(byname, name) : api' = [op |-> "del", id |-> i, name |-> name]
    BY <1>4 DEF FindSource, tables
  <2>2. PICK i \in Named(byname, name) : api' = [op |-> "del", id |-> i, name |-> name]
    BY <2>1
  <2>3. api'.id = i /\ api'.name = name /\ api'.op = "del"
    BY <2>2
  <2>4. i \in DOMAIN nameOf /\ nameOf[i] = name
    BY DEF Named, TypeOK
  <2> QED BY <2>1, <2>3, <2>4 DEF Commands
<1>5. CASE Close
  BY <1>2, <1>5 DEF Close
<1>6. CASE FreeNtrip
  BY <1>2, <1>6 DEF FreeNtrip, Commands
<1> QED
  BY <1>1, <1>2, <1>3, <1>4, <1>5, <1>6
  DEF Next, CasterStep, StartCaster, Mark, Ready, StartSource, DoAdd, DoDel, CloseCaster, AddSource,
      AddUntold, FindSource, DelVsta, Tell, DelSource

\* The queues, one by one: what comes in at the end, and what leaves at the front.
LEMMA AddqStep ==
  ASSUME TypeOK, Casters, prog = "runs", Next, NEW c \in Caster
  PROVE  \A i \in ElementsOf(addq'[c]) : i \in ElementsOf(addq[c]) \/ (i = Len(nameOf) + 1 /\ Longer(i))
<1>0. addq \in [Caster -> Seq(DOMAIN nameOf)] /\ \A k \in DOMAIN tbl : boot[tbl[k]] # "none"
  BY DEF TypeOK, Casters
<1>1. CASE addq'[c] = addq[c]
  BY <1>1
<1>2. ASSUME NEW d \in Caster, DoAdd(d)
      PROVE  ElementsOf(addq'[c]) \subseteq ElementsOf(addq[c])
  <2>1. CASE d = c
    <3>1. addq[c] # <<>> /\ addq'[c] = Tail(addq[c])
      BY <1>0, <1>2, <2>1 DEF DoAdd
    <3> QED BY <1>0, <3>1, ElementsTail
  <2>2. CASE d # c
    BY <1>0, <1>2, <2>2 DEF DoAdd
  <2> QED BY <2>1, <2>2
<1>3. ASSUME NEW name \in Name, NEW also \in SUBSET Reason, Place(name, also)
      PROVE  \A i \in ElementsOf(addq'[c]) : i \in ElementsOf(addq[c]) \/ (i = Len(nameOf) + 1 /\ Longer(i))
  <2> DEFINE why == Raced(name) \union also
             new == Len(nameOf) + 1
  <2>1. /\ InNoQueue(name, why) \/ InHalf(name, why) \/ InQueue(name, why) \/ InNew(name, why)
        /\ Longer(new)
    BY <1>3, <1>0, PlaceCases
  <2> HIDE DEF why, new
  <2>2. CASE addq' = addq
    BY <2>2
  <2>3. CASE InQueue(name, why)
    <3>1. PICK d \in Caster : addq' = [addq EXCEPT ![d] = Append(@, new)]
      BY <2>3 DEF InQueue, new
    <3>2. CASE d = c
      <4>1. addq'[c] = Append(addq[c], new) /\ addq[c] \in Seq(DOMAIN nameOf \union {new})
        BY <1>0, <3>1, <3>2, SeqGrows
      <4>2. ElementsOf(addq'[c]) = ElementsOf(addq[c]) \union {new}
        BY <4>1, ElementsAppend
      <4> QED BY <2>1, <4>2 DEF new
    <3>3. CASE d # c
      BY <1>0, <3>1, <3>3
    <3> QED BY <3>2, <3>3
  <2> QED BY <2>1, <2>2, <2>3 DEF InNoQueue, InHalf, InNew
<1>4. ASSUME NEW name \in Name, AddSource(name) \/ AddUntold(name)
      PROVE  \A i \in ElementsOf(addq'[c]) : i \in ElementsOf(addq[c]) \/ (i = Len(nameOf) + 1 /\ Longer(i))
  <2>1. CASE Place(name, {}) \/ Place(name, {"untold"})
    BY <1>3, <2>1 DEF Reason
  <2> QED BY <1>1, <1>4, <2>1 DEF AddSource, AddUntold, queues
<1> QED
  BY <1>1, <1>2, <1>4
  DEF Next, CasterStep, StartCaster, Mark, Ready, StartSource, DoDel, CloseCaster, FindSource,
      DelVsta, Tell, DelSource, Close, FreeNtrip, queues

LEMMA DelqStep ==
  ASSUME TypeOK, Casters, Commands, prog = "runs", Next, NEW c \in Caster, NEW name \in ElementsOf(delq'[c])
  PROVE  \/ name \in ElementsOf(delq[c])
         \/ DelSource /\ name = api.name
         \/ DelVsta(name)
<1>0. delq \in [Caster -> Seq(Name)] /\ api \in Command
  BY DEF TypeOK
<1>1. CASE delq'[c] = delq[c]
  BY <1>1
<1>2. ASSUME NEW d \in Caster, DoDel(d)
      PROVE  name \in ElementsOf(delq[c])
  <2>1. CASE d = c
    <3>1. delq[c] # <<>> /\ delq'[c] = Tail(delq[c])
      BY <1>0, <1>2, <2>1 DEF DoDel
    <3> QED BY <1>0, <3>1, ElementsTail
  <2>2. CASE d # c
    BY <1>0, <1>2, <2>2 DEF DoDel
  <2> QED BY <2>1, <2>2
<1>3. ASSUME NEW n \in Name, delq'[c] = Append(delq[c], n)
      PROVE  name \in ElementsOf(delq[c]) \/ name = n
  <2>1. ElementsOf(delq'[c]) = ElementsOf(delq[c]) \union {n}
    BY <1>0, <1>3, ElementsAppend
  <2> QED BY <2>1
<1>4. CASE DelSource
  <2>1. api.name \in Name
    BY <1>0, <1>4, ApiFacts DEF DelSource
  <2>2. delq'[c] = delq[c] \/ delq'[c] = Append(delq[c], api.name)
    BY <1>4 DEF DelSource, QueueDeletion
  <2> QED BY <1>1, <1>3, <1>4, <2>1, <2>2
<1>5. ASSUME NEW n \in Name, DelVsta(n)
      PROVE  name \in ElementsOf(delq[c]) \/ DelVsta(name)
  <2>1. delq'[c] = delq[c] \/ delq'[c] = Append(delq[c], n)
    BY <1>5 DEF DelVsta, QueueDeletion
  <2> QED BY <1>1, <1>3, <1>5, <2>1
<1>6. ASSUME NEW n \in Name, AddSource(n) \/ AddUntold(n)
      PROVE  delq'[c] = delq[c]
  BY <1>6 DEF AddSource, AddUntold, Place, queues
<1> QED
  BY <1>1, <1>2, <1>4, <1>5, <1>6
  DEF Next, CasterStep, StartCaster, Mark, Ready, StartSource, DoAdd, CloseCaster, FindSource,
      Tell, Close, FreeNtrip, queues

\* What a caster starts with: its share of the file, or one source that is new.
LEMMA TodoStep ==
  ASSUME TypeOK, Casters, prog = "runs", Next, NEW c \in Caster
  PROVE  \A i \in todo'[c] : \/ i \in todo[c]
                             \/ c <= NCaster /\ boot[c] = "none" /\ i \in Share(c)
                             \/ i = Len(nameOf) + 1 /\ Longer(i) /\ c = NCaster + 1 /\ "new_caster" \in cause'
<1>0. todo \in [Caster -> SUBSET DOMAIN nameOf] /\ \A k \in DOMAIN tbl : boot[tbl[k]] # "none"
  BY DEF TypeOK, Casters
<1>1. CASE todo'[c] \subseteq todo[c]
  BY <1>1
<1>2. ASSUME NEW d \in Caster, StartCaster(d)
      PROVE  todo'[c] \subseteq todo[c] \/ (c <= NCaster /\ boot[c] = "none" /\ todo'[c] = Share(c))
  BY <1>0, <1>2 DEF StartCaster
<1>3. ASSUME NEW d \in Caster, StartSource(d)
      PROVE  todo'[c] \subseteq todo[c]
  BY <1>0, <1>3 DEF StartSource
<1>4. ASSUME NEW name \in Name, NEW also \in SUBSET Reason, Place(name, also)
      PROVE  \/ todo'[c] = todo[c]
             \/ /\ c = NCaster + 1 /\ todo'[c] = {Len(nameOf) + 1} /\ Longer(Len(nameOf) + 1)
                /\ "new_caster" \in cause'
  <2> DEFINE why == Raced(name) \union also
             new == Len(nameOf) + 1
  <2>1. /\ InNoQueue(name, why) \/ InHalf(name, why) \/ InQueue(name, why) \/ InNew(name, why)
        /\ Longer(new)
    BY <1>4, <1>0, PlaceCases
  <2> HIDE DEF why, new
  <2>2. todo' = todo \/ (todo' = [todo EXCEPT ![NCaster + 1] = {new}] /\ "new_caster" \in cause')
    BY <2>1 DEF InNoQueue, InHalf, InQueue, InNew, threads, new
  <2> QED BY <1>0, <2>1, <2>2 DEF new
<1>5. ASSUME NEW name \in Name, AddSource(name) \/ AddUntold(name)
      PROVE  \/ todo'[c] = todo[c]
             \/ /\ c = NCaster + 1 /\ todo'[c] = {Len(nameOf) + 1} /\ Longer(Len(nameOf) + 1)
                /\ "new_caster" \in cause'
  <2>1. CASE Place(name, {}) \/ Place(name, {"untold"})
    BY <1>4, <2>1 DEF Reason
  <2> QED BY <1>5, <2>1 DEF AddSource, AddUntold, threads
<1> QED
  BY <1>1, <1>2, <1>3, <1>5
  DEF Next, CasterStep, Mark, Ready, DoAdd, DoDel, CloseCaster, FindSource,
      DelVsta, Tell, DelSource, Close, FreeNtrip, threads

\* A name that leaves the registry is deleted by a caster, or the program ends.
LEMMA BynameStep ==
  ASSUME TypeOK, prog = "runs", Next
  PROVE  /\ \A i \in byname' : i \in byname \/ \E c \in Caster : i \in ElementsOf(addq[c])
         /\ \A i \in byname : i \notin byname' =>
              phase' = "closed" \/ \E c \in Caster : nameOf[i] \in ElementsOf(delq[c])
<1>1. CASE byname' = byname
  BY <1>1
<1>2. ASSUME NEW c \in Caster, DoAdd(c)
      PROVE  \A i \in byname' : i \in byname \/ i \in ElementsOf(addq[c])
  <2>1. addq[c] # <<>> /\ byname' \subseteq byname \union {Head(addq[c])} /\ addq[c] \in Seq(DOMAIN nameOf)
    BY <1>2 DEF DoAdd, TypeOK
  <2> QED BY <2>1, ElementsTail
<1>3. ASSUME NEW c \in Caster, DoAdd(c)
      PROVE  byname \subseteq byname'
  BY <1>3 DEF DoAdd
<1>4. ASSUME NEW c \in Caster, DoDel(c)
      PROVE  /\ byname' \subseteq byname
             /\ \A i \in byname : i \notin byname' => nameOf[i] \in ElementsOf(delq[c])
  <2>1. /\ delq[c] # <<>> /\ delq[c] \in Seq(Name) /\ byname' \subseteq byname
        /\ \A i \in byname : i \notin byname' => nameOf[i] = Head(delq[c])
    BY <1>4 DEF DoDel, Unregister, Named, TypeOK
  <2> QED BY <2>1, ElementsTail
<1>5. CASE FreeNtrip
  BY <1>5 DEF FreeNtrip
<1>6. ASSUME NEW name \in Name, AddSource(name) \/ AddUntold(name)
      PROVE  byname' = byname
  BY <1>6 DEF AddSource, AddUntold, Place, tables
<1>7. CASE \E c \in Caster : DoAdd(c)
  BY <1>2, <1>3, <1>7
<1>8. CASE \E c \in Caster : DoDel(c)
  BY <1>4, <1>8
<1> QED
  BY <1>1, <1>5, <1>6, <1>7, <1>8
  DEF Next, CasterStep, StartCaster, Mark, Ready, StartSource, CloseCaster, FindSource,
      DelVsta, Tell, DelSource, Close, tables

-----------------------------------------------------------------------------
(* Where a source is, and is coming to.                                    *)

\* A new source of a name that nobody has, which comes to a caster.
Comes(c, new, name) ==
  /\ Longer(new) /\ nameOf'[new] = name /\ Named(byname, name) = {}
  /\ Raced(name) \subseteq excuse'[name]
  /\ Home(c)' \subseteq Home(c) \union {new}
  /\ \A d \in Caster : d # c => Home(d)' \subseteq Home(d)

LEMMA BootStep ==
  ASSUME TypeOK, Casters, prog = "runs", Next, NEW c \in Caster, boot'[c] = "none"
  PROVE  boot[c] = "none"
<1>0. boot \in [Caster -> Boot] /\ \A k \in DOMAIN tbl : boot[tbl[k]] # "none"
  BY DEF TypeOK, Casters
<1>1. CASE boot'[c] = boot[c]
  BY <1>1
<1>2. ASSUME NEW d \in Caster, StartCaster(d) \/ Mark(d) \/ Ready(d) \/ CloseCaster(d)
      PROVE  boot'[c] = boot[c]
  BY <1>0, <1>2 DEF StartCaster, Mark, Ready, CloseCaster
<1>3. ASSUME NEW name \in Name, NEW also \in SUBSET Reason, Place(name, also)
      PROVE  boot[c] = "none"
  <2> DEFINE why == Raced(name) \union also
  <2>1. InNoQueue(name, why) \/ InHalf(name, why) \/ InQueue(name, why) \/ InNew(name, why)
    BY <1>3, <1>0, PlaceCases
  <2> HIDE DEF why
  <2>2. boot' = boot \/ boot' = [boot EXCEPT ![NCaster + 1] = "off"]
    BY <2>1 DEF InNoQueue, InHalf, InQueue, InNew, threads
  <2> QED BY <1>0, <2>2
<1>4. ASSUME NEW name \in Name, AddSource(name) \/ AddUntold(name)
      PROVE  boot[c] = "none"
  <2>1. CASE Place(name, {}) \/ Place(name, {"untold"})
    BY <1>3, <2>1 DEF Reason
  <2> QED BY <1>1, <1>4, <2>1 DEF AddSource, AddUntold, threads
<1> QED
  BY <1>1, <1>2, <1>4
  DEF Next, CasterStep, StartSource, DoAdd, DoDel, FindSource, DelVsta, Tell, DelSource, Close,
      FreeNtrip, threads

\* A place that is kept or left.
LEMMA HomeShrinks ==
  ASSUME TypeOK, Casters, prog = "runs", Next, NEW c \in Caster,
         srcs'[c] \union ElementsOf(addq'[c]) \union todo'[c] \subseteq Home(c)
  PROVE  Home(c)' \subseteq Home(c)
<1>1. Unstarted(c)' \subseteq Unstarted(c)
  BY BootStep DEF Unstarted
<1> QED BY <1>1 DEF Home, Coming

LEMMA HomeStep ==
  ASSUME TypeOK, Casters, prog = "runs", Next
  PROVE  \/ \A c \in Caster : Home(c)' \subseteq Home(c)
         \/ \E c \in Caster, name \in Name : Comes(c, Len(nameOf) + 1, name)
<1>0. /\ boot \in [Caster -> Boot] /\ srcs \in [Caster -> SUBSET DOMAIN nameOf]
      /\ todo \in [Caster -> SUBSET DOMAIN nameOf] /\ addq \in [Caster -> Seq(DOMAIN nameOf)]
      /\ \A k \in DOMAIN tbl : boot[tbl[k]] # "none"
  BY DEF TypeOK, Casters
<1>1. ASSUME UNCHANGED <<srcs, todo, addq>>
      PROVE  \A c \in Caster : Home(c)' \subseteq Home(c)
  <2>1. \A c \in Caster : srcs'[c] \union ElementsOf(addq'[c]) \union todo'[c] \subseteq Home(c)
    BY <1>1 DEF Home, Coming
  <2> QED BY <2>1, HomeShrinks
<1>2. ASSUME NEW d \in Caster, StartCaster(d)
      PROVE  \A c \in Caster : Home(c)' \subseteq Home(c)
  <2>1. ASSUME NEW c \in Caster
        PROVE  srcs'[c] \union ElementsOf(addq'[c]) \union todo'[c] \subseteq Home(c)
    <3>1. srcs'[c] = srcs[c] /\ addq'[c] = addq[c]
          /\ (todo'[c] = todo[c] \/ (todo'[c] = Share(c) /\ c <= NCaster /\ boot[c] = "none"))
      BY <1>0, <1>2 DEF StartCaster, queues
    <3> QED BY <3>1 DEF Home, Coming, Unstarted
  <2> QED BY <2>1, HomeShrinks
<1>3. ASSUME NEW d \in Caster, StartSource(d)
      PROVE  \A c \in Caster : Home(c)' \subseteq Home(c)
  <2>1. ASSUME NEW c \in Caster
        PROVE  srcs'[c] \union ElementsOf(addq'[c]) \union todo'[c] \subseteq Home(c)
    <3>1. addq'[c] = addq[c] /\ todo'[c] \subseteq todo[c] /\ srcs'[c] \subseteq srcs[c] \union todo[c]
      BY <1>0, <1>3 DEF StartSource, queues
    <3> QED BY <3>1 DEF Home, Coming
  <2> QED BY <2>1, HomeShrinks
<1>4. ASSUME NEW d \in Caster, DoAdd(d)
      PROVE  \A c \in Caster : Home(c)' \subseteq Home(c)
  <2>1. ASSUME NEW c \in Caster
        PROVE  srcs'[c] \union ElementsOf(addq'[c]) \union todo'[c] \subseteq Home(c)
    <3>1. todo'[c] = todo[c]
      BY <1>4 DEF DoAdd, threads
    <3>2. CASE c # d
      <4>1. addq'[c] = addq[c] /\ srcs'[c] = srcs[c]
        BY <1>0, <1>4, <3>2 DEF DoAdd
      <4> QED BY <3>1, <4>1 DEF Home, Coming
    <3>3. CASE c = d
      <4>1. addq[c] # <<>> /\ addq'[c] = Tail(addq[c]) /\ srcs'[c] \subseteq srcs[c] \union {Head(addq[c])}
        BY <1>0, <1>4, <3>3 DEF DoAdd
      <4>2. Head(addq[c]) \in ElementsOf(addq[c]) /\ ElementsOf(Tail(addq[c])) \subseteq ElementsOf(addq[c])
        BY <1>0, <4>1, ElementsTail
      <4> QED BY <3>1, <4>1, <4>2 DEF Home, Coming
    <3> QED BY <3>2, <3>3
  <2> QED BY <2>1, HomeShrinks
<1>5. ASSUME NEW d \in Caster, DoDel(d) \/ CloseCaster(d)
      PROVE  \A c \in Caster : Home(c)' \subseteq Home(c)
  <2>1. ASSUME NEW c \in Caster
        PROVE  srcs'[c] \union ElementsOf(addq'[c]) \union todo'[c] \subseteq Home(c)
    <3>1. addq'[c] = addq[c] /\ todo'[c] = todo[c] /\ srcs'[c] \subseteq srcs[c]
      BY <1>0, <1>5 DEF DoDel, CloseCaster, threads, queues
    <3> QED BY <3>1 DEF Home, Coming
  <2> QED BY <2>1, HomeShrinks
<1>6. ASSUME NEW name \in Name, NEW also \in SUBSET Reason, Place(name, also), UNCHANGED srcs,
             Named(byname, name) = {}
      PROVE  \/ \A c \in Caster : Home(c)' \subseteq Home(c)
             \/ \E c \in Caster : Comes(c, Len(nameOf) + 1, name)
  <2> DEFINE why == Raced(name) \union also
             new == Len(nameOf) + 1
  <2>1. /\ InNoQueue(name, why) \/ InHalf(name, why) \/ InQueue(name, why) \/ InNew(name, why)
        /\ Longer(new) /\ nameOf'[new] = name
    BY <1>6, <1>0, PlaceCases
  <2>a. Raced(name) \subseteq why
    OBVIOUS
  <2> HIDE DEF why, new
  <2>2. CASE InNoQueue(name, why) \/ InHalf(name, why)
    <3>1. UNCHANGED <<srcs, todo, addq>>
      BY <1>6, <2>2 DEF InNoQueue, InHalf, threads
    <3> QED BY <1>1, <3>1
  <2>3. CASE InQueue(name, why)
    <3>1. PICK c \in Caster :
            /\ addq' = [addq EXCEPT ![c] = Append(@, new)] /\ UNCHANGED <<boot, todo>>
            /\ \A n \in Name : excuse'[n] = IF n = name THEN excuse[n] \union why ELSE excuse[n]
      BY <2>3 DEF InQueue, new, threads
    <3>2. addq'[c] = Append(addq[c], new) /\ addq[c] \in Seq(DOMAIN nameOf \union {new})
      BY <1>0, <3>1, SeqGrows
    <3>3. ElementsOf(addq'[c]) = ElementsOf(addq[c]) \union {new}
      BY <3>2, ElementsAppend
    <3>4. Home(c)' \subseteq Home(c) \union {new}
      BY <1>6, <3>1, <3>3 DEF Home, Coming, Unstarted
    <3>5. ASSUME NEW d \in Caster, d # c
          PROVE  Home(d)' \subseteq Home(d)
      <4>1. addq'[d] = addq[d]
        BY <1>0, <3>1, <3>5
      <4> QED BY <1>6, <3>1, <4>1 DEF Home, Coming, Unstarted
    <3>6. Comes(c, new, name)
      BY <1>6, <2>1, <2>a, <3>1, <3>4, <3>5 DEF Comes
    <3> QED BY <3>6 DEF new
  <2>4. CASE InNew(name, why)
    <3> DEFINE c == NCaster + 1
    <3>1. /\ c \in Caster /\ boot' = [boot EXCEPT ![c] = "off"] /\ todo' = [todo EXCEPT ![c] = {new}]
          /\ \A n \in Name : excuse'[n] = IF n = name THEN excuse[n] \union why ELSE excuse[n]
          /\ UNCHANGED <<addq, srcs>>
      BY <1>6, <2>4, CasterNumbers DEF InNew, new
    <3> HIDE DEF c
    <3>2. \A d \in Caster : /\ boot'[d] = IF d = c THEN "off" ELSE boot[d]
                            /\ todo'[d] = IF d = c THEN {new} ELSE todo[d]
      BY <1>0, <3>1
    <3>3. Home(c)' \subseteq Home(c) \union {new}
      BY <3>1, <3>2 DEF Home, Coming, Unstarted
    <3>5. ASSUME NEW d \in Caster, d # c
          PROVE  Home(d)' \subseteq Home(d)
      BY <3>1, <3>2, <3>5 DEF Home, Coming, Unstarted
    <3>6. Comes(c, new, name)
      BY <1>6, <2>1, <2>a, <3>1, <3>3, <3>5 DEF Comes
    <3> QED BY <3>1, <3>6 DEF new
  <2> QED BY <2>1, <2>2, <2>3, <2>4
<1>7. ASSUME NEW name \in Name, AddSource(name) \/ AddUntold(name)
      PROVE  \/ \A c \in Caster : Home(c)' \subseteq Home(c)
             \/ \E c \in Caster : Comes(c, Len(nameOf) + 1, name)
  <2>1. CASE (Place(name, {}) \/ Place(name, {"untold"})) /\ Named(byname, name) = {} /\ UNCHANGED srcs
    BY <1>6, <2>1 DEF Reason
  <2>2. CASE UNCHANGED <<srcs, todo, addq>>
    BY <1>1, <2>2
  <2> QED BY <1>7, <2>1, <2>2 DEF AddSource, AddUntold, threads, queues
<1>8. CASE UNCHANGED <<srcs, todo, addq>>
  BY <1>1, <1>8
<1> QED
  BY <1>2, <1>3, <1>4, <1>5, <1>7, <1>8
  DEF Next, CasterStep, Mark, Ready, FindSource, DelVsta, Tell, DelSource, Close, FreeNtrip,
      threads, queues

\* A name that is given is one that nobody in the registry has.
LEMMA NameStep ==
  ASSUME TypeOK, Casters, prog = "runs", Next
  PROVE  \/ nameOf' = nameOf
         \/ \E name \in Name : /\ Longer(Len(nameOf) + 1) /\ nameOf'[Len(nameOf) + 1] = name
                               /\ Named(byname, name) = {}
<1>0. \A k \in DOMAIN tbl : boot[tbl[k]] # "none"
  BY DEF Casters
<1>1. ASSUME NEW name \in Name, NEW also \in SUBSET Reason, Place(name, also)
      PROVE  Longer(Len(nameOf) + 1) /\ nameOf'[Len(nameOf) + 1] = name
  BY <1>0, <1>1, PlaceCases
<1>2. ASSUME NEW name \in Name, AddSource(name) \/ AddUntold(name), nameOf' # nameOf
      PROVE  /\ Longer(Len(nameOf) + 1) /\ nameOf'[Len(nameOf) + 1] = name
             /\ Named(byname, name) = {}
  <2>1. (Place(name, {}) \/ Place(name, {"untold"})) /\ Named(byname, name) = {}
    BY <1>2 DEF AddSource, AddUntold, tables
  <2> QED BY <1>1, <2>1 DEF Reason
<1> QED
  BY <1>2
  DEF Next, CasterStep, StartCaster, Mark, Ready, StartSource, DoAdd, DoDel, CloseCaster, FindSource,
      DelVsta, Tell, DelSource, Close, FreeNtrip, tables

LEMMA FilesStep ==
  ASSUME TypeOK, Casters, Commands, Files, prog = "runs", Next
  PROVE  Files'
<1>1. /\ \A i \in 1 .. NFile : nameOf[i] \in FileNames
      /\ \A i, j \in 1 .. NFile : nameOf[i] = nameOf[j] => i = j
      /\ \A c \in Caster : /\ \A i \in ElementsOf(addq[c]) : i > NFile
                           /\ \A i \in todo[c] : /\ i > NFile => "new_caster" \in cause
                                                 /\ i <= NFile => c <= NCaster
      /\ phase # "closed" => \A i \in 1 .. NFile : i \in byname \/ "table_freed" \in cause
      /\ \A i \in 1 .. NFile : i \in byname => \A j \in DOMAIN nameOf : nameOf[j] = nameOf[i] => j = i
      /\ \A c \in Caster : \A name \in ElementsOf(delq[c]) :
           /\ name \in VrsNames => "no_client" \in cause
           /\ \A i \in 1 .. NFile : nameOf[i] = name => "table_freed" \in cause
  BY DEF Files
<1>2. /\ cause \subseteq cause'
      /\ \A i \in DOMAIN nameOf : i \in DOMAIN nameOf' /\ nameOf'[i] = nameOf[i]
  BY GrowStep DEF Grown
<1>3. /\ \A i \in 1 .. NFile : i \in DOMAIN nameOf
      /\ NFile \in Nat /\ \A i \in 1 .. NFile : i <= NFile /\ ~ (i > NFile)
  <2>1. nameOf \in Seq(Name) /\ Len(nameOf) \in NFile .. MaxId /\ NFile \in Nat /\ MaxId \in Nat
    BY Sizes DEF TypeOK
  <2>2. DOMAIN nameOf = 1 .. Len(nameOf)
    BY <2>1
  <2> QED BY <2>1, <2>2
<1>4. \A i \in 1 .. NFile : nameOf'[i] = nameOf[i]
  BY <1>2, <1>3
<1>5. ASSUME NEW c \in Caster, NEW i \in ElementsOf(addq'[c])
      PROVE  i > NFile
  BY <1>1, AddqStep DEF Longer
<1>6. ASSUME NEW c \in Caster, NEW i \in todo'[c]
      PROVE  (i > NFile => "new_caster" \in cause') /\ (i <= NFile => c <= NCaster)
  <2>1. CASE i \in todo[c]
    BY <1>1, <1>2, <2>1
  <2>2. CASE c <= NCaster /\ i \in Share(c)
    BY <1>3, <2>2, Shares
  <2>3. CASE i > NFile /\ "new_caster" \in cause'
    <3>1. CASE i <= NFile
      <4>1. i \in DOMAIN nameOf'
        BY TypesStep DEF TypeOK
      <4>2. FALSE
        BY <1>3, <2>3, <3>1, <4>1, TypesStep DEF TypeOK
      <4> QED BY <4>2
    <3> QED BY <2>3, <3>1
  <2> QED BY <2>1, <2>2, <2>3, TodoStep DEF Longer
<1>7. ASSUME phase' # "closed", NEW i \in 1 .. NFile
      PROVE  i \in byname' \/ "table_freed" \in cause'
  <2>1. phase # "closed"
    BY <1>7
    DEF Next, CasterStep, StartCaster, Mark, Ready, StartSource, DoAdd, DoDel, CloseCaster, FindSource,
        AddSource, AddUntold, DelVsta, Tell, DelSource, Close, FreeNtrip
  <2>2. CASE i \in byname /\ i \notin byname'
    BY <1>1, <1>2, <1>7, <2>2, BynameStep
  <2> QED BY <1>1, <1>2, <2>1, <2>2
<1>8. ASSUME NEW i \in 1 .. NFile, i \in byname', NEW j \in DOMAIN nameOf', nameOf'[j] = nameOf'[i]
      PROVE  j = i
  <2>1. i \in byname
    BY <1>1, <1>3, <1>8, BynameStep
  <2>2. CASE j \in DOMAIN nameOf
    BY <1>1, <1>2, <1>4, <1>8, <2>1, <2>2
  <2>3. CASE j \notin DOMAIN nameOf
    <3>1. j = Len(nameOf) + 1 /\ Named(byname, nameOf'[j]) = {}
      BY <2>3, NameStep DEF Longer
    <3>2. i \in Named(byname, nameOf'[j])
      BY <1>4, <1>8, <2>1 DEF Named
    <3> QED BY <3>1, <3>2
  <2> QED BY <2>2, <2>3
<1>9. ASSUME NEW c \in Caster, NEW name \in ElementsOf(delq'[c])
      PROVE  /\ name \in VrsNames => "no_client" \in cause'
             /\ \A i \in 1 .. NFile : nameOf'[i] = name => "table_freed" \in cause'
  <2>1. CASE name \in ElementsOf(delq[c])
    BY <1>1, <1>2, <1>4, <2>1
  <2>2. CASE DelSource /\ name = api.name
    <3>1. /\ cause' = cause \union (CASE api.id <= NFile -> {"table_freed"}
                                      [] api.name \in VrsNames -> {"no_client"}
                                      [] OTHER -> {})
                            \union (IF \E d \in Caster : boot[d] = "half" THEN {"half_made"} ELSE {})
      BY <2>2 DEF DelSource, QueueDeletion
    <3>2. /\ api \in Command /\ api # Idle /\ phase = "open" /\ api.id \in Id
          /\ api.id \in DOMAIN nameOf /\ nameOf[api.id] = api.name
      BY <2>2, ApiFacts DEF TypeOK, Commands, DelSource
    <3>3. api.id <= NFile => api.id \in 1 .. NFile
      BY <3>2, Sizes DEF Id
    <3>4. FileNames \intersect VrsNames = {}
      BY CasterAssumption DEF CasterAssumption
    <3>5. name \in VrsNames => "no_client" \in cause'
      BY <1>1, <2>2, <3>1, <3>2, <3>3, <3>4
    <3>6. ASSUME NEW i \in 1 .. NFile, nameOf'[i] = name
          PROVE  "table_freed" \in cause'
      <4>1. CASE api.id <= NFile
        <5>1. (CASE api.id <= NFile -> {"table_freed"} [] api.name \in VrsNames -> {"no_client"}
                 [] OTHER -> {}) = {"table_freed"}
          BY <3>2, <3>3, <3>4, <1>1, <4>1
        <5> QED BY <3>1, <5>1
      <4>2. CASE ~ (api.id <= NFile)
        <5>1. api.id # i /\ nameOf[api.id] = nameOf[i]
          BY <1>3, <1>4, <2>2, <3>2, <3>6, <4>2
        <5>2. i \notin byname
          BY <1>1, <3>2, <5>1
        <5> QED BY <1>1, <1>2, <3>2, <5>2
      <4> QED BY <4>1, <4>2
    <3> QED BY <3>5, <3>6
  <2>3. CASE DelVsta(name)
    <3>1. "no_client" \in cause' /\ name \in VrsNames
      BY <2>3 DEF DelVsta, QueueDeletion
    <3>2. FileNames \intersect VrsNames = {}
      BY CasterAssumption DEF CasterAssumption
    <3> QED BY <1>1, <1>4, <3>1, <3>2
  <2> QED BY <2>1, <2>2, <2>3, DelqStep
<1> QED BY <1>1, <1>4, <1>5, <1>6, <1>7, <1>8, <1>9 DEF Files

LEMMA DistinctAppend ==
  ASSUME NEW S, NEW q \in Seq(S), NEW x \in S, Distinct(q), x \notin ElementsOf(q)
  PROVE  Distinct(Append(q, x))
<1>1. /\ DOMAIN Append(q, x) = 1 .. Len(q) + 1 /\ DOMAIN q = 1 .. Len(q) /\ Len(q) \in Nat
      /\ \A i \in 1 .. Len(q) : Append(q, x)[i] = q[i]
      /\ Append(q, x)[Len(q) + 1] = x
  OBVIOUS
<1>2. \A i \in 1 .. Len(q) + 1 : i \in 1 .. Len(q) \/ i = Len(q) + 1
  BY ONLY <1>1
<1>3. \A i \in 1 .. Len(q) : q[i] # x
  BY <1>1 DEF ElementsOf
<1> QED BY <1>1, <1>2, <1>3 DEF Distinct

LEMMA DistinctTail ==
  ASSUME NEW S, NEW q \in Seq(S), Distinct(q), q # <<>>
  PROVE  Distinct(Tail(q)) /\ Head(q) \notin ElementsOf(Tail(q))
<1>1. /\ Len(q) \in Nat \ {0} /\ DOMAIN q = 1 .. Len(q) /\ DOMAIN Tail(q) = 1 .. Len(q) - 1
      /\ \A i \in 1 .. Len(q) - 1 : Tail(q)[i] = q[i + 1]
      /\ Head(q) = q[1]
  OBVIOUS
<1>2. /\ 1 \in 1 .. Len(q) /\ \A i \in 1 .. Len(q) - 1 : i + 1 \in 1 .. Len(q) /\ i + 1 # 1
      /\ \A i, j \in 1 .. Len(q) - 1 : i + 1 = j + 1 => i = j
  BY ONLY <1>1
<1>3. Distinct(Tail(q))
  <2>1. ASSUME NEW k \in 1 .. Len(q) - 1, NEW l \in 1 .. Len(q) - 1, Tail(q)[k] = Tail(q)[l]
        PROVE  k = l
    <3>1. q[k + 1] = q[l + 1] /\ k + 1 \in DOMAIN q /\ l + 1 \in DOMAIN q
      BY <1>1, <1>2, <2>1
    <3>2. k + 1 = l + 1
      BY <3>1 DEF Distinct
    <3> QED BY <1>2, <3>2
  <2> QED BY <1>1, <2>1 DEF Distinct
<1>4. Head(q) \notin ElementsOf(Tail(q))
  <2>1. ASSUME NEW k \in 1 .. Len(q) - 1, Tail(q)[k] = Head(q)
        PROVE  FALSE
    <3>1. q[k + 1] = q[1] /\ k + 1 \in DOMAIN q /\ 1 \in DOMAIN q
      BY <1>1, <1>2, <2>1
    <3>2. k + 1 = 1
      BY <3>1 DEF Distinct
    <3> QED BY <1>2, <3>2
  <2> QED BY <1>1, <2>1 DEF ElementsOf
<1> QED BY <1>3, <1>4

\* What is at a place has a name.
LEMMA HomeKnown ==
  ASSUME TypeOK
  PROVE  /\ 1 .. NFile \subseteq DOMAIN nameOf
         /\ \A c \in Caster : Home(c) \subseteq DOMAIN nameOf
         /\ Alive \subseteq DOMAIN nameOf
<1>1. 1 .. NFile \subseteq DOMAIN nameOf
  <2>1. nameOf \in Seq(Name) /\ Len(nameOf) \in NFile .. MaxId /\ NFile \in Nat /\ MaxId \in Nat
    BY Sizes DEF TypeOK
  <2>2. DOMAIN nameOf = 1 .. Len(nameOf)
    BY <2>1
  <2> QED BY <2>1, <2>2
<1>2. ASSUME NEW c \in Caster
      PROVE  Home(c) \subseteq DOMAIN nameOf
  <2>1. srcs[c] \subseteq DOMAIN nameOf /\ todo[c] \subseteq DOMAIN nameOf
    BY DEF TypeOK
  <2>2. addq[c] \in Seq(DOMAIN nameOf)
    BY DEF TypeOK
  <2>3. ElementsOf(addq[c]) \subseteq DOMAIN nameOf
    BY <2>2 DEF ElementsOf
  <2>4. Unstarted(c) \subseteq DOMAIN nameOf
    BY <1>1, Shares DEF Unstarted
  <2> QED BY <2>1, <2>3, <2>4 DEF Home, Coming
<1> QED BY <1>1, <1>2 DEF Alive

LEMMA ApartStep ==
  ASSUME TypeOK, Casters, Files, Places, prog = "runs", Next, NEW c \in Caster
  PROVE  Apart(c)'
<1>0. /\ boot \in [Caster -> Boot] /\ srcs \in [Caster -> SUBSET DOMAIN nameOf]
      /\ todo \in [Caster -> SUBSET DOMAIN nameOf] /\ addq \in [Caster -> Seq(DOMAIN nameOf)]
      /\ \A k \in DOMAIN tbl : boot[tbl[k]] # "none"
      /\ addq[c] \in Seq(DOMAIN nameOf)
      /\ \A d \in Caster : boot[d] = "ready" => Unstarted(d) = {}
  BY DEF TypeOK, Casters, Unstarted
<1>1. /\ srcs[c] \intersect Coming(c) = {} /\ todo[c] \intersect ElementsOf(addq[c]) = {}
      /\ Distinct(addq[c])
  BY DEF Places, Apart
<1>2. Unstarted(c)' \subseteq Unstarted(c)
  BY BootStep DEF Unstarted
<1>3. ASSUME srcs'[c] \subseteq srcs[c], addq'[c] = addq[c], todo'[c] \subseteq todo[c]
      PROVE  Apart(c)'
  BY <1>1, <1>2, <1>3 DEF Apart, Coming
<1>4. ASSUME NEW d \in Caster, StartCaster(d)
      PROVE  Apart(c)'
  <2>1. CASE d = c
    <3>1. /\ srcs'[c] = srcs[c] /\ addq'[c] = addq[c] /\ todo'[c] = Share(c) /\ boot[c] = "none"
          /\ c <= NCaster
      BY <1>0, <1>4, <2>1 DEF StartCaster, queues
    <3>2. addq[c] = <<>> /\ srcs[c] = {}
      BY <3>1 DEF Casters
    <3>3. ElementsOf(addq'[c]) = {}
      BY <3>1, <3>2, ElementsEmpty
    <3>4. Distinct(addq'[c])
      BY <1>1, <3>1
    <3> QED BY <3>1, <3>2, <3>3, <3>4 DEF Apart
  <2>2. CASE d # c
    <3>1. srcs'[c] = srcs[c] /\ addq'[c] = addq[c] /\ todo'[c] = todo[c]
      BY <1>0, <1>4, <2>2 DEF StartCaster, queues
    <3> QED BY <1>3, <3>1
  <2> QED BY <2>1, <2>2
<1>5. ASSUME NEW d \in Caster, StartSource(d)
      PROVE  Apart(c)'
  <2>1. CASE d = c
    <3>1. /\ addq'[c] = addq[c] /\ boot[c] = "ready" /\ boot'[c] = "ready"
          /\ \E i \in todo[c] : todo'[c] = todo[c] \ {i} /\ srcs'[c] \subseteq srcs[c] \union {i}
      BY <1>0, <1>5, <2>1 DEF StartSource, queues
    <3>2. Unstarted(c)' = {}
      BY <3>1 DEF Unstarted
    <3>3. Distinct(addq'[c]) /\ todo'[c] \intersect ElementsOf(addq'[c]) = {}
      BY <1>1, <3>1
    <3>4. srcs[c] \intersect (ElementsOf(addq[c]) \union todo[c]) = {}
      BY <1>1 DEF Coming
    <3> QED BY <1>1, <3>1, <3>2, <3>3, <3>4 DEF Apart, Coming
  <2>2. CASE d # c
    <3>1. srcs'[c] = srcs[c] /\ addq'[c] = addq[c] /\ todo'[c] = todo[c]
      BY <1>0, <1>5, <2>2 DEF StartSource, queues
    <3> QED BY <1>3, <3>1
  <2> QED BY <2>1, <2>2
<1>6. ASSUME NEW d \in Caster, DoAdd(d)
      PROVE  Apart(c)'
  <2>1. CASE d = c
    <3>1. /\ addq[c] # <<>> /\ addq'[c] = Tail(addq[c]) /\ boot'[c] = "ready"
          /\ todo[c] = {} /\ todo'[c] = {} /\ srcs'[c] \subseteq srcs[c] \union {Head(addq[c])}
      BY <1>0, <1>6, <2>1 DEF DoAdd, threads
    <3>2. Unstarted(c)' = {}
      BY <3>1 DEF Unstarted
    <3>3. Distinct(addq'[c]) /\ Head(addq[c]) \notin ElementsOf(addq'[c])
      BY <1>0, <1>1, <3>1, DistinctTail
    <3>4. ElementsOf(addq'[c]) \subseteq ElementsOf(addq[c])
      BY <1>0, <3>1, ElementsTail
    <3>5. srcs[c] \intersect ElementsOf(addq[c]) = {}
      BY <1>1 DEF Coming
    <3> QED BY <3>1, <3>2, <3>3, <3>4, <3>5 DEF Apart, Coming
  <2>2. CASE d # c
    <3>1. srcs'[c] = srcs[c] /\ addq'[c] = addq[c] /\ todo'[c] = todo[c]
      BY <1>0, <1>6, <2>2 DEF DoAdd, threads
    <3> QED BY <1>3, <3>1
  <2> QED BY <2>1, <2>2
<1>7. ASSUME NEW d \in Caster, DoDel(d) \/ CloseCaster(d)
      PROVE  Apart(c)'
  <2>1. addq'[c] = addq[c] /\ todo'[c] = todo[c] /\ srcs'[c] \subseteq srcs[c]
    BY <1>0, <1>7 DEF DoDel, CloseCaster, threads, queues
  <2> QED BY <1>3, <2>1
<1>8. ASSUME NEW name \in Name, NEW also \in SUBSET Reason, Place(name, also), UNCHANGED srcs
      PROVE  Apart(c)'
  <2> DEFINE why == Raced(name) \union also
             new == Len(nameOf) + 1
  <2>1. /\ InNoQueue(name, why) \/ InHalf(name, why) \/ InQueue(name, why) \/ InNew(name, why)
        /\ Longer(new)
    BY <1>8, <1>0, PlaceCases
  <2>2. new \notin Home(c)
    BY <2>1, HomeKnown DEF Longer
  <2> HIDE DEF why
  <2>3. CASE UNCHANGED <<todo, addq>>
    BY <1>3, <1>8, <2>3
  <2>4. ASSUME NEW d \in Caster, addq' = [addq EXCEPT ![d] = Append(@, new)], UNCHANGED <<todo, boot>>
        PROVE  Apart(c)'
    <3> HIDE DEF new
    <3>1. CASE d = c
      <4>1. addq'[c] = Append(addq[c], new) /\ addq[c] \in Seq(DOMAIN nameOf \union {new})
        BY <1>0, <2>4, <3>1, SeqGrows
      <4>2. ElementsOf(addq'[c]) = ElementsOf(addq[c]) \union {new}
        BY <4>1, ElementsAppend
      <4>3. new \notin ElementsOf(addq[c]) /\ new \notin todo[c] /\ new \notin srcs[c]
        BY <2>2 DEF Home, Coming
      <4>4. Distinct(addq'[c])
        BY <1>1, <4>1, <4>3, DistinctAppend
      <4> QED BY <1>1, <1>2, <1>8, <2>4, <4>2, <4>3, <4>4 DEF Apart, Coming
    <3>2. CASE d # c
      <4>1. addq'[c] = addq[c]
        BY <1>0, <2>4, <3>2
      <4> QED BY <1>3, <1>8, <2>4, <4>1
    <3> QED BY <3>1, <3>2
  <2>5. CASE InNew(name, why)
    <3> HIDE DEF new
    <3>1. UNCHANGED addq /\ (todo'[c] = todo[c] \/ todo'[c] = {new})
      BY <1>0, <2>5 DEF InNew, new
    <3>2. CASE todo'[c] = todo[c]
      BY <1>3, <1>8, <3>1, <3>2
    <3>3. CASE todo'[c] = {new}
      <4>1. new \notin ElementsOf(addq[c]) /\ new \notin srcs[c]
        BY <2>2 DEF Home, Coming
      <4> QED BY <1>1, <1>2, <1>8, <3>1, <3>3, <4>1 DEF Apart, Coming
    <3> QED BY <3>1, <3>2, <3>3
  <2>6. CASE InQueue(name, why)
    <3>1. PICK d \in Caster : addq' = [addq EXCEPT ![d] = Append(@, new)] /\ UNCHANGED <<todo, boot>>
      BY <2>6 DEF InQueue, threads
    <3> QED BY <2>4, <3>1
  <2> QED BY <2>1, <2>3, <2>5, <2>6 DEF InNoQueue, InHalf, threads
<1>9. ASSUME NEW name \in Name, AddSource(name) \/ AddUntold(name)
      PROVE  Apart(c)'
  <2>1. CASE (Place(name, {}) \/ Place(name, {"untold"})) /\ UNCHANGED srcs
    BY <1>8, <2>1 DEF Reason
  <2>2. CASE UNCHANGED <<srcs, todo, addq>>
    BY <1>3, <2>2
  <2> QED BY <1>9, <2>1, <2>2 DEF AddSource, AddUntold, threads, queues
<1>10. CASE UNCHANGED <<srcs, todo, addq>>
  BY <1>3, <1>10
<1> QED
  BY <1>4, <1>5, <1>6, <1>7, <1>9, <1>10
  DEF Next, CasterStep, Mark, Ready, FindSource, DelVsta, Tell, DelSource, Close, FreeNtrip,
      threads, queues

LEMMA PlacesStep ==
  ASSUME TypeOK, Casters, Files, Places, prog = "runs", Next
  PROVE  Places'
<1>1. /\ \A c \in Caster : \A i \in Home(c) : i <= NFile => i \in Share(c)
      /\ \A c, d \in Caster : \A i \in Home(c) : i > NFile /\ i \in Home(d) => c = d
  BY DEF Places
<1>2. \A c \in Caster : Apart(c)'
  BY ApartStep
<1>3. CASE \A c \in Caster : Home(c)' \subseteq Home(c)
  BY <1>1, <1>2, <1>3 DEF Places
<1>4. ASSUME NEW c \in Caster, NEW name \in Name, Comes(c, Len(nameOf) + 1, name)
      PROVE  Places'
  <2> DEFINE new == Len(nameOf) + 1
  <2>1. new \in Id /\ new > NFile /\ new \notin DOMAIN nameOf
    BY <1>4 DEF Comes, Longer
  <2>2. ~ (new <= NFile)
    BY ONLY <2>1, Sizes DEF Id
  <2> HIDE DEF new
  <2>3. \A d \in Caster : new \notin Home(d)
    BY <2>1, HomeKnown
  <2>4. \A d \in Caster : Home(d)' \subseteq Home(d) \union {new} /\ (d # c => Home(d)' \subseteq Home(d))
    BY <1>4 DEF Comes, new
  <2>5. \A d \in Caster : \A i \in Home(d)' : i <= NFile => i \in Share(d)
    BY <1>1, <2>2, <2>4
  <2>6. ASSUME NEW d \in Caster, NEW e \in Caster, NEW i \in Home(d)', i > NFile, i \in Home(e)'
        PROVE  d = e
    <3>1. CASE i = new
      BY <2>3, <2>4, <2>6, <3>1
    <3>2. CASE i # new
      BY <1>1, <2>4, <2>6, <3>2
    <3> QED BY <3>1, <3>2
  <2> QED BY <1>2, <2>5, <2>6 DEF Places
<1> QED BY <1>3, <1>4, HomeStep

-----------------------------------------------------------------------------
(* One source of a name, and what is registered.                           *)

\* A source is in one place.
LEMMA OnePlace ==
  ASSUME TypeOK, Places, NEW c \in Caster, NEW d \in Caster, NEW i \in Home(c), i \in Home(d)
  PROVE  c = d
<1>1. i \in Nat /\ NFile \in Nat
  BY HomeKnown, Sizes DEF TypeOK
<1>2. CASE i <= NFile
  <2>1. i \in Share(c) /\ i \in Share(d)
    BY <1>2 DEF Places
  <2> QED BY <2>1, Shares
<1>3. CASE i > NFile
  BY <1>3 DEF Places
<1> QED BY <1>1, <1>2, <1>3

LEMMA UniqueStep ==
  ASSUME TypeOK, Casters, Unique, Registered, prog = "runs", Next
  PROVE  Unique'
<1>0. /\ \A n \in Name : excuse[n] \subseteq excuse'[n]
      /\ \A i \in DOMAIN nameOf : nameOf'[i] = nameOf[i] /\ nameOf[i] \in Name
      /\ Alive \subseteq DOMAIN nameOf
  BY GrowStep, HomeKnown DEF Grown, TypeOK
<1>1. CASE \A c \in Caster : Home(c)' \subseteq Home(c)
  <2>1. Alive' \subseteq Alive
    BY <1>1 DEF Alive
  <2> QED BY <1>0, <2>1 DEF Unique
<1>2. ASSUME NEW c \in Caster, NEW name \in Name, Comes(c, Len(nameOf) + 1, name)
      PROVE  Unique'
  <2> DEFINE new == Len(nameOf) + 1
  <2>1. nameOf'[new] = name /\ Named(byname, name) = {} /\ Raced(name) \subseteq excuse'[name]
    BY <1>2 DEF Comes
  <2>2. Alive' \subseteq Alive \union {new}
    BY <1>2 DEF Comes, Alive
  <2> HIDE DEF new
  <2>3. ASSUME NEW i \in Alive, nameOf[i] = name
        PROVE  "raced" \in excuse'[name]
    <3>1. CASE Waiting(name)
      BY <2>1, <3>1 DEF Raced
    <3>2. CASE ~ Waiting(name)
      <4>1. PICK d \in Caster : i \in Home(d)
        BY DEF Alive
      <4>2. i \in srcs[d] \union Unstarted(d)
        BY <2>3, <3>2, <4>1 DEF Waiting, Queued, Home, Coming
      <4>3. i \in byname \/ "raced" \in excuse[name]
        BY <2>3, <4>2 DEF Registered
      <4> QED BY <1>0, <2>1, <2>3, <4>3 DEF Named
    <3> QED BY <3>1, <3>2
  <2>4. ASSUME NEW i \in Alive', NEW j \in Alive', nameOf'[i] = nameOf'[j], i # j
        PROVE  "raced" \in excuse'[nameOf'[i]]
    <3>1. CASE i \in Alive /\ j \in Alive
      BY <1>0, <2>4, <3>1 DEF Unique
    <3>2. CASE i = new /\ j \in Alive
      BY <1>0, <2>1, <2>3, <2>4, <3>2
    <3>3. CASE j = new /\ i \in Alive
      BY <1>0, <2>1, <2>3, <2>4, <3>3
    <3> QED BY <2>2, <2>4, <3>1, <3>2, <3>3
  <2> QED BY <2>4 DEF Unique
<1> QED BY <1>1, <1>2, HomeStep

\* What leaves the registry is no client any more, but for requests that raced.
LEMMA Leaves ==
  ASSUME TypeOK, Casters, Places, Unique, prog = "runs", Next,
         NEW c \in Caster, NEW i \in srcs[c] \union Unstarted(c), i \in byname, i \notin byname'
  PROVE  "raced" \in excuse[nameOf[i]] \/ i \notin srcs'[c] \union Unstarted(c)'
<1>0. /\ srcs \in [Caster -> SUBSET DOMAIN nameOf] /\ delq \in [Caster -> Seq(Name)]
      /\ i \in Home(c) /\ i \in Alive
      /\ \A d \in Caster : \A j \in srcs[d] : j \in Home(d) /\ j \in Alive
  BY DEF TypeOK, Home, Coming, Alive
<1>1. ASSUME NEW d \in Caster, DoDel(d)
      PROVE  "raced" \in excuse[nameOf[i]] \/ i \notin srcs'[c] \union Unstarted(c)'
  <2> DEFINE s == Named(srcs[d], Head(delq[d]))
  <2>1. /\ s # {} /\ srcs' = [srcs EXCEPT ![d] = @ \ s] /\ nameOf[i] = Head(delq[d])
    BY <1>1 DEF DoDel, Unregister, Named
  <2>2. PICK j \in srcs[d] : nameOf[j] = nameOf[i]
    BY <2>1 DEF Named
  <2>3. CASE j # i
    BY <1>0, <2>2, <2>3 DEF Unique
  <2>4. CASE j = i
    <3>1. c = d
      BY <1>0, <2>4, OnePlace
    <3>2. i \in srcs[c] /\ i \notin srcs'[c]
      BY <1>0, <2>1, <2>2, <2>4, <3>1 DEF Named
    <3>3. i \notin Coming(c)
      BY <3>2 DEF Places, Apart
    <3>4. Unstarted(c)' \subseteq Unstarted(c)
      BY BootStep DEF Unstarted
    <3> QED BY <3>2, <3>3, <3>4 DEF Coming
  <2> QED BY <2>3, <2>4
<1>2. CASE FreeNtrip
  <2>1. phase = "closing" /\ UNCHANGED <<boot, srcs>> /\ \A k \in DOMAIN tbl : boot[tbl[k]] = "stopped"
    BY <1>2 DEF FreeNtrip
  <2>2. boot[c] = "none" \/ boot[c] = "stopped"
    BY <2>1 DEF Casters, ElementsOf
  <2>3. c <= NCaster => boot[c] # "none"
    BY <2>1, CasterNumbers DEF Casters
  <2>4. srcs'[c] = {} /\ Unstarted(c)' = {}
    BY <2>1, <2>2, <2>3 DEF Casters, Unstarted
  <2> QED BY <2>4
<1>3. ASSUME NEW d \in Caster, DoAdd(d)
      PROVE  FALSE
  BY <1>3 DEF DoAdd
<1>4. ASSUME NEW name \in Name, AddSource(name) \/ AddUntold(name)
      PROVE  FALSE
  BY <1>4 DEF AddSource, AddUntold, Place, tables
<1>5. CASE byname' = byname
  BY <1>5
<1> QED
  BY <1>1, <1>2, <1>3, <1>4, <1>5
  DEF Next, CasterStep, StartCaster, Mark, Ready, StartSource, CloseCaster, FindSource,
      DelVsta, Tell, DelSource, Close, tables

\* A client that is new is registered.
LEMMA NewClient ==
  ASSUME TypeOK, prog = "runs", Next, prog' = "runs", NEW c \in Caster, NEW i \in srcs'[c], i \notin srcs[c]
  PROVE  i \in byname'
<1>0. srcs \in [Caster -> SUBSET DOMAIN nameOf]
  BY DEF TypeOK
<1>1. ASSUME NEW d \in Caster, StartSource(d)
      PROVE  i \in byname'
  <2>1. PICK j \in todo[d] : /\ \/ /\ srcs' = [srcs EXCEPT ![d] = @ \union {j}]
                                   /\ prog' = IF j \in byname THEN prog ELSE "crashed"
                                \/ UNCHANGED srcs
                             /\ byname' = byname
    BY <1>1 DEF StartSource, tables
  <2>2. i = j /\ prog' = IF j \in byname THEN prog ELSE "crashed"
    BY <1>0, <2>1
  <2> QED BY <2>1, <2>2
<1>2. ASSUME NEW d \in Caster, DoAdd(d)
      PROVE  i \in byname'
  <2>1. \/ UNCHANGED srcs
        \/ srcs' = [srcs EXCEPT ![d] = @ \union {Head(addq[d])}] /\ byname' = byname \union {Head(addq[d])}
    BY <1>2 DEF DoAdd
  <2> QED BY <1>0, <2>1
<1>3. ASSUME NEW d \in Caster, DoDel(d) \/ CloseCaster(d)
      PROVE  FALSE
  BY <1>0, <1>3 DEF DoDel, CloseCaster
<1>4. CASE UNCHANGED srcs
  BY <1>4
<1> QED
  BY <1>1, <1>2, <1>3, <1>4
  DEF Next, CasterStep, StartCaster, Mark, Ready, FindSource, AddSource, AddUntold,
      DelVsta, Tell, DelSource, Close, FreeNtrip

LEMMA RegisteredStep ==
  ASSUME TypeOK, Casters, Places, Unique, Registered, prog = "runs", Next
  PROVE  Registered'
<1> SUFFICES ASSUME prog' = "runs", NEW c \in Caster, NEW i \in srcs'[c] \union Unstarted(c)'
             PROVE  i \in byname' \/ "raced" \in excuse'[nameOf'[i]]
  BY DEF Registered
<1>1. CASE i \in srcs[c] \union Unstarted(c)
  <2>1. i \in DOMAIN nameOf
    BY <1>1, HomeKnown DEF Home, Coming
  <2>2. nameOf'[i] = nameOf[i] /\ excuse[nameOf[i]] \subseteq excuse'[nameOf[i]]
    BY <2>1, GrowStep DEF Grown, TypeOK
  <2>3. i \in byname \/ "raced" \in excuse[nameOf[i]]
    BY <1>1 DEF Registered
  <2> QED BY <1>1, <2>2, <2>3, Leaves
<1>2. CASE i \in srcs'[c] /\ i \notin srcs[c]
  BY <1>2, NewClient
<1>3. Unstarted(c)' \subseteq Unstarted(c)
  BY BootStep DEF Unstarted
<1> QED BY <1>1, <1>2, <1>3

LEMMA FreedStep ==
  ASSUME TypeOK, Casters, Places, Unique, FreedExcused, prog = "runs", Next
  PROVE  FreedExcused'
<1>0. /\ \A n \in Name : excuse[n] \subseteq excuse'[n]
      /\ \A i \in DOMAIN nameOf : nameOf'[i] = nameOf[i] /\ nameOf[i] \in Name
      /\ freed \subseteq DOMAIN nameOf /\ excuse \in [Name -> SUBSET Reason]
  BY GrowStep DEF Grown, TypeOK, Reason
<1>1. CASE freed' = freed
  BY <1>0, <1>1 DEF FreedExcused
<1>2. ASSUME NEW c \in Caster, DoAdd(c)
      PROVE  FreedExcused'
  <2> DEFINE i == Head(addq[c])
  <2>1. addq[c] # <<>> /\ addq[c] \in Seq(DOMAIN nameOf)
    BY <1>2 DEF DoAdd, TypeOK
  <2>2. i \in ElementsOf(addq[c]) /\ i \in DOMAIN nameOf
    BY <2>1, ElementsTail
  <2>3. \/ UNCHANGED freed
        \/ freed' = freed \union {i} /\ Named(srcs[c], nameOf[i]) # {}
        \/ freed' = freed \union {i} /\ Excuse(nameOf[i], {"not_started"})
    BY <1>2 DEF DoAdd
  <2> HIDE DEF i
  <2>4. CASE freed' = freed \union {i} /\ Named(srcs[c], nameOf[i]) # {}
    <3>1. PICK j \in srcs[c] : nameOf[j] = nameOf[i]
      BY <2>4 DEF Named
    <3>2. j # i
      BY <2>2 DEF Places, Apart, Coming
    <3>3. i \in Alive /\ j \in Alive
      BY <2>2 DEF Alive, Home, Coming
    <3>4. "raced" \in excuse[nameOf[i]]
      BY <3>1, <3>2, <3>3 DEF Unique
    <3> QED BY <1>0, <2>2, <2>4, <3>4 DEF FreedExcused
  <2>5. CASE freed' = freed \union {i} /\ Excuse(nameOf[i], {"not_started"})
    <3>1. "not_started" \in excuse'[nameOf[i]]
      BY <1>0, <2>2, <2>5 DEF Excuse
    <3> QED BY <1>0, <2>2, <2>5, <3>1 DEF FreedExcused
  <2> QED BY <1>1, <2>3, <2>4, <2>5
<1>3. ASSUME NEW name \in Name, AddSource(name) \/ AddUntold(name)
      PROVE  freed' = freed
  BY <1>3 DEF AddSource, AddUntold, Place, tables
<1> QED
  BY <1>1, <1>2, <1>3
  DEF Next, CasterStep, StartCaster, Mark, Ready, StartSource, DoDel, CloseCaster, FindSource,
      DelVsta, Tell, DelSource, Close, FreeNtrip, tables

LEMMA TablesStep ==
  ASSUME TypeOK, Casters, Files, TablesAgree, prog = "runs", Next
  PROVE  TablesAgree'
<1>0. cause \subseteq cause'
  BY GrowStep DEF Grown
<1>1. CASE UNCHANGED <<byname, byid>>
  BY <1>0, <1>1 DEF TablesAgree
<1>2. ASSUME NEW c \in Caster, DoAdd(c)
      PROVE  TablesAgree'
  BY <1>0, <1>2 DEF DoAdd, TablesAgree
<1>3. ASSUME NEW c \in Caster, DoDel(c)
      PROVE  TablesAgree'
  <2>1. UNCHANGED <<byname, byid>> \/ \E i \in Named(byname, Head(delq[c])) : Unregister(i)
    BY <1>3 DEF DoDel
  <2>2. ASSUME NEW i \in Named(byname, Head(delq[c])), Unregister(i)
        PROVE  TablesAgree'
    <3>1. CASE i <= NFile
      <4>1. i \in 1 .. NFile /\ nameOf[i] = Head(delq[c])
        BY <3>1, Sizes DEF Named, TypeOK
      <4>2. delq[c] # <<>> /\ delq[c] \in Seq(Name)
        BY <1>3 DEF DoDel, TypeOK
      <4>3. "table_freed" \in cause
        BY <4>1, <4>2, ElementsTail DEF Files
      <4> QED BY <1>0, <4>3 DEF TablesAgree
    <3>2. CASE ~ (i <= NFile)
      BY <1>0, <2>2, <3>2 DEF Unregister, TablesAgree
    <3> QED BY <3>1, <3>2
  <2> QED BY <1>1, <2>1, <2>2
<1>4. CASE FreeNtrip
  BY <1>4 DEF FreeNtrip, TablesAgree
<1>5. ASSUME NEW name \in Name, AddSource(name) \/ AddUntold(name)
      PROVE  UNCHANGED <<byname, byid>>
  BY <1>5 DEF AddSource, AddUntold, Place, tables
<1> QED
  BY <1>1, <1>2, <1>3, <1>4, <1>5
  DEF Next, CasterStep, StartCaster, Mark, Ready, StartSource, CloseCaster, FindSource,
      DelVsta, Tell, DelSource, Close, tables

LEMMA CrashStep ==
  ASSUME TypeOK, Casters, Files, TablesAgree, prog = "runs", Next
  PROVE  CrashExcused'
<1>0. cause \subseteq cause'
  BY GrowStep DEF Grown
<1>1. ASSUME prog' = prog
      PROVE  CrashExcused'
  BY <1>1 DEF CrashExcused
<1>2. ASSUME "half_made" \in cause' \/ "new_caster" \in cause' \/ "table_freed" \in cause'
             \/ "no_client" \in cause' \/ "freed_twice" \in cause'
      PROVE  CrashExcused'
  BY <1>2 DEF CrashExcused
<1>3. ASSUME NEW c \in Caster, StartSource(c)
      PROVE  CrashExcused'
  <2>1. PICK i \in todo[c] : prog' = prog \/ i \notin byname
    BY <1>3 DEF StartSource
  <2>2. i \in Nat /\ NFile \in Nat /\ i \in DOMAIN nameOf /\ boot[c] = "ready"
    BY <1>3, Sizes DEF TypeOK, StartSource
  <2>3. CASE i > NFile
    BY <1>0, <1>2, <2>3 DEF Files
  <2>4. CASE i \notin byname /\ i <= NFile
    <3>1. i \in 1 .. NFile /\ c \in 1 .. NCaster
      <4>1. i \in 1 .. Len(nameOf)
        BY <2>2 DEF TypeOK
      <4> QED BY <2>2, <2>4, <4>1, CasterNumbers DEF Files
    <3>2. phase # "closed"
      BY <2>2, <3>1 DEF Casters
    <3> QED BY <1>0, <1>2, <2>4, <3>1, <3>2 DEF Files
  <2> QED BY <1>1, <2>1, <2>2, <2>3, <2>4
<1>4. ASSUME NEW c \in Caster, DoDel(c)
      PROVE  CrashExcused'
  <2>1. delq[c] # <<>> /\ delq[c] \in Seq(Name)
    BY <1>4 DEF DoDel, TypeOK
  <2>2. Head(delq[c]) \in ElementsOf(delq[c])
    BY <2>1, ElementsTail
  <2>3. \/ prog' = prog
        \/ Head(delq[c]) \in VrsNames
        \/ \E i \in Named(byname, Head(delq[c])) : Unregister(i)
    BY <1>4 DEF DoDel
  <2>4. CASE Head(delq[c]) \in VrsNames
    BY <1>0, <1>2, <2>2, <2>4 DEF Files
  <2>5. ASSUME NEW i \in Named(byname, Head(delq[c])), Unregister(i)
        PROVE  CrashExcused'
    <3>1. CASE i <= NFile
      <4>1. i \in 1 .. NFile /\ nameOf[i] = Head(delq[c])
        BY <3>1, Sizes DEF Named, TypeOK
      <4> QED BY <1>0, <1>2, <2>2, <4>1 DEF Files
    <3>2. CASE ~ (i <= NFile)
      <4>1. prog' = prog \/ i \notin byid
        BY <2>5, <3>2 DEF Unregister
      <4>2. i \notin byid => "table_freed" \in cause
        BY DEF TablesAgree, Named
      <4> QED BY <1>0, <1>1, <1>2, <4>1, <4>2
    <3> QED BY <3>1, <3>2
  <2> QED BY <1>1, <2>3, <2>4, <2>5
<1>5. ASSUME NEW name \in Name, NEW also \in SUBSET Reason, Place(name, also)
      PROVE  CrashExcused'
  <2> DEFINE why == Raced(name) \union also
  <2>1. InNoQueue(name, why) \/ InHalf(name, why) \/ InQueue(name, why) \/ InNew(name, why)
    BY <1>5, PlaceCases DEF Casters
  <2> HIDE DEF why
  <2> QED BY <1>1, <1>2, <2>1 DEF InNoQueue, InHalf, InQueue, InNew
<1>6. ASSUME NEW name \in Name, AddSource(name) \/ AddUntold(name)
      PROVE  CrashExcused'
  <2>1. CASE Place(name, {}) \/ Place(name, {"untold"})
    BY <1>5, <2>1 DEF Reason
  <2> QED BY <1>1, <1>6, <2>1 DEF AddSource, AddUntold
<1>7. ASSUME NEW name, NEW because, NEW why, QueueDeletion(name, because, why)
      PROVE  CrashExcused'
  BY <1>1, <1>2, <1>7 DEF QueueDeletion
<1>8. CASE DelSource \/ \E name \in Name : DelVsta(name)
  BY <1>7, <1>8 DEF DelSource, DelVsta
<1>9. ASSUME NEW c \in Caster, CloseCaster(c)
      PROVE  CrashExcused'
  BY <1>1, <1>2, <1>9 DEF CloseCaster
<1>10. CASE FreeNtrip
  BY <1>1, <1>2, <1>10 DEF FreeNtrip
<1> QED
  BY <1>1, <1>3, <1>4, <1>6, <1>8, <1>9, <1>10
  DEF Next, CasterStep, StartCaster, Mark, Ready, DoAdd, FindSource, Tell, Close

-----------------------------------------------------------------------------
(* What a caster has room for.                                             *)

Load(c) == Cardinality(srcs[c]) + Cardinality(todo[c]) + Len(addq[c])

LEMMA Finite ==
  ASSUME TypeOK, NEW c \in Caster
  PROVE  /\ IsFiniteSet(srcs[c]) /\ IsFiniteSet(todo[c])
         /\ Cardinality(srcs[c]) \in Nat /\ Cardinality(todo[c]) \in Nat /\ Len(addq[c]) \in Nat
<1>1. nameOf \in Seq(Name) /\ Len(nameOf) \in Nat /\ DOMAIN nameOf = 1 .. Len(nameOf)
  BY Sizes DEF TypeOK
<1>2. IsFiniteSet(DOMAIN nameOf)
  BY <1>1, FS_Interval
<1>3. srcs[c] \in SUBSET DOMAIN nameOf /\ todo[c] \in SUBSET DOMAIN nameOf
  BY DEF TypeOK
<1>4. IsFiniteSet(srcs[c]) /\ IsFiniteSet(todo[c])
  BY <1>2, <1>3, FS_Subset
<1>5. addq[c] \in Seq(DOMAIN nameOf)
  BY DEF TypeOK
<1> QED BY <1>4, <1>5, FS_CardinalityType

LEMMA OneMore ==
  ASSUME NEW S, NEW T, NEW x, IsFiniteSet(S), T \subseteq S \union {x}
  PROVE  Cardinality(T) <= Cardinality(S) + 1
<1>1. IsFiniteSet(S \union {x}) /\ Cardinality(S \union {x}) <= Cardinality(S) + 1
  <2>1. S \union {x} = S \union {x} /\ IsFiniteSet(S \union {x})
        /\ Cardinality(S \union {x}) = IF x \in S THEN Cardinality(S) ELSE Cardinality(S) + 1
    BY FS_AddElement
  <2>2. Cardinality(S) \in Nat
    BY FS_CardinalityType
  <2> QED BY <2>1, <2>2
<1>2. Cardinality(T) <= Cardinality(S \union {x}) /\ Cardinality(T) \in Nat
      /\ Cardinality(S) \in Nat /\ Cardinality(S \union {x}) \in Nat
  BY <1>1, FS_Subset, FS_CardinalityType
<1> QED BY ONLY <1>1, <1>2

LEMMA CapacityStep ==
  ASSUME TypeOK, Casters, Commands, Capacity, prog = "runs", Next
  PROVE  Capacity'
<1> SUFFICES ASSUME "burst" \notin cause', NEW c \in Caster
             PROVE  Load(c)' <= MaxSrcs
  BY DEF Capacity, Load
<1>0. /\ srcs \in [Caster -> SUBSET DOMAIN nameOf] /\ todo \in [Caster -> SUBSET DOMAIN nameOf]
      /\ addq \in [Caster -> Seq(DOMAIN nameOf)]
      /\ \A k \in DOMAIN tbl : boot[tbl[k]] # "none"
  BY DEF TypeOK, Casters
<1>a. /\ IsFiniteSet(srcs[c]) /\ IsFiniteSet(todo[c])
      /\ Cardinality(srcs[c]) \in Nat /\ Cardinality(todo[c]) \in Nat /\ Len(addq[c]) \in Nat
      /\ Cardinality(srcs'[c]) \in Nat /\ Cardinality(todo'[c]) \in Nat /\ Len(addq'[c]) \in Nat
      /\ MaxSrcs \in Nat \ {0}
  <2>1. /\ srcs' \in [Caster -> SUBSET DOMAIN nameOf'] /\ todo' \in [Caster -> SUBSET DOMAIN nameOf']
        /\ addq' \in [Caster -> Seq(DOMAIN nameOf')] /\ nameOf' \in Seq(Name)
    BY TypesStep DEF TypeOK
  <2>2. IsFiniteSet(DOMAIN nameOf')
    <3>1. Len(nameOf') \in Nat /\ DOMAIN nameOf' = 1 .. Len(nameOf')
      BY <2>1
    <3> QED BY <3>1, FS_Interval
  <2>3. srcs'[c] \in SUBSET DOMAIN nameOf' /\ todo'[c] \in SUBSET DOMAIN nameOf'
    BY <2>1
  <2>4. IsFiniteSet(srcs'[c]) /\ IsFiniteSet(todo'[c])
    BY <2>2, <2>3, FS_Subset
  <2>5. Cardinality(srcs'[c]) \in Nat /\ Cardinality(todo'[c]) \in Nat
    BY <2>4, FS_CardinalityType
  <2>6. addq'[c] \in Seq(DOMAIN nameOf')
    BY <2>1
  <2>7. Len(addq'[c]) \in Nat
    BY <2>6
  <2> QED BY <2>5, <2>7, Finite, Sizes
<1>b. Cardinality(srcs[c]) + Cardinality(todo[c]) + Len(addq[c]) <= MaxSrcs
  <2>1. "burst" \notin cause
    BY GrowStep DEF Grown
  <2> QED BY <2>1 DEF Capacity
<1>1. ASSUME srcs'[c] \subseteq srcs[c], addq'[c] = addq[c], todo'[c] = todo[c]
      PROVE  Load(c)' <= MaxSrcs
  <2>1. Cardinality(srcs'[c]) <= Cardinality(srcs[c])
    BY <1>a, <1>1, FS_Subset
  <2>2. Cardinality(srcs'[c]) + Cardinality(todo[c]) + Len(addq[c]) <= MaxSrcs
    BY ONLY <1>a, <1>b, <2>1
  <2> QED BY <1>1, <2>2 DEF Load
\* A caster that has nothing yet.
<1>c. ASSUME boot[c] = "none", UNCHANGED <<srcs, addq>>, Cardinality(todo'[c]) <= MaxSrcs
      PROVE  Load(c)' <= MaxSrcs
  <2>1. srcs'[c] = {} /\ addq'[c] = <<>>
    BY <1>c DEF Casters
  <2>2. Cardinality(srcs'[c]) = 0 /\ Len(addq'[c]) = 0
    BY <2>1, FS_EmptySet
  <2>3. 0 + Cardinality(todo'[c]) + 0 <= MaxSrcs
    BY ONLY <1>a, <1>c
  <2> QED BY <2>2, <2>3 DEF Load
<1>2. ASSUME NEW d \in Caster, StartCaster(d)
      PROVE  Load(c)' <= MaxSrcs
  <2>1. UNCHANGED <<srcs, addq>> /\ (todo'[c] = todo[c] \/ (boot[c] = "none" /\ todo'[c] = Share(c)))
    BY <1>0, <1>2 DEF StartCaster, queues
  <2>2. Cardinality(Share(c)) <= MaxSrcs
    BY Shares
  <2> QED BY <1>1, <1>c, <2>1, <2>2
<1>3. ASSUME NEW d \in Caster, StartSource(d)
      PROVE  Load(c)' <= MaxSrcs
  <2>1. CASE d # c
    <3>1. srcs'[c] = srcs[c] /\ addq'[c] = addq[c] /\ todo'[c] = todo[c]
      BY <1>0, <1>3, <2>1 DEF StartSource, queues
    <3> QED BY <1>1, <3>1
  <2>2. CASE d = c
    <3>1. PICK i \in todo[c] : srcs'[c] \subseteq srcs[c] \union {i} /\ todo'[c] = todo[c] \ {i}
                               /\ addq'[c] = addq[c]
      BY <1>0, <1>3, <2>2 DEF StartSource, queues
    <3>2. Cardinality(srcs'[c]) <= Cardinality(srcs[c]) + 1
      BY <1>a, <3>1, OneMore
    <3>3. Cardinality(todo'[c]) = Cardinality(todo[c]) - 1
      <4>1. Cardinality(todo[c] \ {i}) = Cardinality(todo[c]) - 1
        BY <1>a, FS_RemoveElement
      <4> QED BY <3>1, <4>1
    <3>4. Cardinality(srcs'[c]) + Cardinality(todo'[c]) + Len(addq[c]) <= MaxSrcs
      BY ONLY <1>a, <1>b, <3>2, <3>3
    <3> QED BY <3>1, <3>4 DEF Load
  <2> QED BY <2>1, <2>2
<1>4. ASSUME NEW d \in Caster, DoAdd(d)
      PROVE  Load(c)' <= MaxSrcs
  <2>1. CASE d # c
    <3>1. srcs'[c] = srcs[c] /\ addq'[c] = addq[c] /\ todo'[c] = todo[c]
      BY <1>0, <1>4, <2>1 DEF DoAdd, threads
    <3> QED BY <1>1, <3>1
  <2>2. CASE d = c
    <3>1. /\ srcs'[c] \subseteq srcs[c] \union {Head(addq[c])} /\ todo'[c] = todo[c]
          /\ addq'[c] = Tail(addq[c]) /\ addq[c] # <<>> /\ addq[c] \in Seq(DOMAIN nameOf)
      BY <1>0, <1>4, <2>2 DEF DoAdd, threads
    <3>2. Cardinality(srcs'[c]) <= Cardinality(srcs[c]) + 1
      BY <1>a, <3>1, OneMore
    <3>3. Len(addq'[c]) = Len(addq[c]) - 1
      BY <3>1
    <3>4. Cardinality(srcs'[c]) + Cardinality(todo[c]) + Len(addq'[c]) <= MaxSrcs
      BY ONLY <1>a, <1>b, <3>2, <3>3
    <3> QED BY <3>1, <3>4 DEF Load
  <2> QED BY <2>1, <2>2
<1>5. ASSUME NEW d \in Caster, DoDel(d) \/ CloseCaster(d)
      PROVE  Load(c)' <= MaxSrcs
  <2>1. addq'[c] = addq[c] /\ todo'[c] = todo[c] /\ srcs'[c] \subseteq srcs[c]
    BY <1>0, <1>5 DEF DoDel, CloseCaster, threads, queues
  <2> QED BY <1>1, <2>1
<1>6. ASSUME NEW name \in Name, NEW also \in SUBSET Reason, Place(name, also), UNCHANGED srcs
      PROVE  Load(c)' <= MaxSrcs
  <2> DEFINE why == Raced(name) \union also
             new == Len(nameOf) + 1
  <2>1. InNoQueue(name, why) \/ InHalf(name, why) \/ InQueue(name, why) \/ InNew(name, why)
    BY <1>6, <1>0, PlaceCases
  <2> HIDE DEF why
  <2>2. CASE UNCHANGED <<todo, addq>>
    BY <1>1, <1>6, <2>2
  <2>3. CASE InNew(name, why)
    <3>1. UNCHANGED <<srcs, addq>> /\ (todo'[c] = todo[c] \/ (boot[c] = "none" /\ todo'[c] = {new}))
      BY <1>0, <1>6, <2>3 DEF InNew
    <3>2. Cardinality({new}) = 1
      BY FS_Singleton
    <3>3. Cardinality({new}) <= MaxSrcs
      BY ONLY <1>a, <3>2
    <3> QED BY <1>1, <1>c, <3>1, <3>3
  <2>4. CASE InQueue(name, why)
    <3>1. PICK d \in Caster :
            /\ HasRoom(d) /\ addq' = [addq EXCEPT ![d] = Append(@, new)] /\ UNCHANGED todo
            /\ cause' = IF addq[d] # <<>> \/ todo[d] # {} THEN cause \union {"burst"} ELSE cause
      BY <2>4 DEF InQueue, threads
    <3>2. CASE d # c
      BY <1>0, <1>1, <1>6, <3>1, <3>2
    <3>3. CASE d = c
      <4>1. addq[c] = <<>> /\ todo[c] = {} /\ Cardinality(srcs[c]) < MaxSrcs
        BY <3>1, <3>3 DEF HasRoom
      <4>2. addq'[c] = Append(addq[c], new)
        BY <1>0, <3>1, <3>3
      <4>3. Len(addq'[c]) = 1 /\ Cardinality(todo'[c]) = 0
        <5>1. Len(addq'[c]) = 1
          BY <4>1, <4>2
        <5>2. Cardinality(todo'[c]) = 0
          BY <3>1, <4>1, FS_EmptySet
        <5> QED BY <5>1, <5>2
      <4>4. Cardinality(srcs[c]) + 0 + 1 <= MaxSrcs
        BY ONLY <1>a, <4>1
      <4> QED BY <1>6, <4>3, <4>4 DEF Load
    <3> QED BY <3>2, <3>3
  <2> QED BY <2>1, <2>2, <2>3, <2>4 DEF InNoQueue, InHalf, threads
<1>7. ASSUME NEW name \in Name, AddSource(name) \/ AddUntold(name)
      PROVE  Load(c)' <= MaxSrcs
  <2>1. CASE (Place(name, {}) \/ Place(name, {"untold"})) /\ UNCHANGED srcs
    BY <1>6, <2>1 DEF Reason
  <2>2. CASE UNCHANGED <<srcs, todo, addq>>
    BY <1>1, <2>2
  <2> QED BY <1>7, <2>1, <2>2 DEF AddSource, AddUntold, threads, queues
<1>8. CASE UNCHANGED <<srcs, todo, addq>>
  BY <1>1, <1>8
<1> QED
  BY <1>2, <1>3, <1>4, <1>5, <1>7, <1>8
  DEF Next, CasterStep, Mark, Ready, FindSource, DelVsta, Tell, DelSource, Close, FreeNtrip,
      threads, queues

-----------------------------------------------------------------------------
(* What was asked for.                                                     *)

Speaks(n) == api # Idle /\ api.name = n

\* Two sets, before and after a step, that have the same sources of a name.
Alike(S, T, n) == \A i \in S \union T : nameOf'[i] = n => i \in S /\ i \in T

LEMMA AlikeNamed ==
  ASSUME NEW S \in SUBSET DOMAIN nameOf, NEW T, NEW n, Alike(S, T, n),
         \A i \in DOMAIN nameOf : nameOf'[i] = nameOf[i]
  PROVE  {i \in T : nameOf'[i] = n} = {i \in S : nameOf[i] = n}
BY DEF Alike

LEMMA KnownSets ==
  ASSUME TypeOK
  PROVE  /\ \A c \in Caster : srcs[c] \in SUBSET DOMAIN nameOf /\ Coming(c) \in SUBSET DOMAIN nameOf
         /\ byname \in SUBSET DOMAIN nameOf /\ told \in SUBSET DOMAIN nameOf
         /\ Alive \in SUBSET DOMAIN nameOf
BY HomeKnown DEF TypeOK, Home

\* A command is carried out on a source of its name.
LEMMA SpokenOf ==
  ASSUME TypeOK, Commands
  PROVE  /\ api.op \in {"tell", "del"} <=> api # Idle
         /\ api # Idle => api.id \in DOMAIN nameOf /\ nameOf[api.id] = api.name /\ api.name \in Name
BY ApiFacts DEF TypeOK, Commands

\* A step that does nothing about a name.
LEMMA Frame ==
  ASSUME TypeOK, Casters, Commands, prog = "runs", Next, NEW n \in Name, Wanted(n), Told(n),
         \A c \in Caster : /\ Alike(srcs[c], srcs'[c], n) /\ Alike(Coming(c), Coming(c)', n)
                           /\ n \in ElementsOf(delq'[c]) <=> n \in ElementsOf(delq[c]),
         Alike(byname, byname', n), Alike(told, told', n), wanted'[n] = wanted[n],
         api' = api \/ (~ Speaks(n) /\ ~ Speaks(n)')
  PROVE  Wanted(n)' /\ Told(n)'
<1>1. /\ \A i \in DOMAIN nameOf : i \in DOMAIN nameOf' /\ nameOf'[i] = nameOf[i]
      /\ excuse'[n] = {} => excuse[n] = {}
  BY GrowStep DEF Grown
<1>2. /\ \A c \in Caster : /\ Named(srcs[c], n)' = Named(srcs[c], n)
                           /\ Named(Coming(c), n)' = Named(Coming(c), n)
      /\ Named(byname, n)' = Named(byname, n) /\ Named(told, n)' = Named(told, n)
  BY <1>1, KnownSets, AlikeNamed DEF Named
<1>3. Alike(Alive, Alive', n)
  BY DEF Alike, Alive, Home
<1>4. Named(Alive, n)' = Named(Alive, n)
  BY <1>1, <1>3, KnownSets, AlikeNamed DEF Named
<1>5. \A S : Named(S, n) \subseteq Alive <=> Named(S, n) \subseteq Named(Alive, n)
  BY DEF Named
<1>6. Named(byname, n)' \subseteq Alive'
  <2>1. Named(byname, n) \subseteq Named(Alive, n)
    BY <1>5 DEF Wanted
  <2> QED BY <1>2, <1>4, <2>1 DEF Named
<1>7. Wanted(n)'
  BY <1>2, <1>4, <1>6 DEF Wanted
<1>8. /\ api.op \in {"tell", "del"} <=> api # Idle
      /\ api'.op \in {"tell", "del"} <=> api' # Idle
      /\ api # Idle => api.id \in DOMAIN nameOf /\ nameOf[api.id] = api.name
  <2>1. api' \in Command
    BY TypesStep DEF TypeOK
  <2>2. api'.op \in {"tell", "del"} <=> api' # Idle
    BY <2>1 DEF Command, Idle
  <2> QED BY <2>2, SpokenOf
<1>9. CASE ~ Speaks(n) /\ ~ Speaks(n)'
  <2>1. Named(told, n)' = ToldOf(n) \/ n \in VrsNames \/ excuse'[n] # {}
    BY <1>1, <1>2 DEF Told
  <2>2. ToldOf(n)' = ToldOf(n)
    BY <1>4, <1>8, <1>9 DEF ToldOf, Speaks
  <2> QED BY <1>7, <1>9, <2>1, <2>2 DEF Told, Speaks
<1>10. CASE api' = api /\ Speaks(n)
  <2>1. api # Idle /\ api.id \in DOMAIN nameOf /\ nameOf[api.id] = n /\ nameOf'[api.id] = n
    BY <1>1, <1>8, <1>10 DEF Speaks
  <2>2. (api.id \in told' <=> api.id \in told) /\ (api.id \in Alive' <=> api.id \in Alive)
    BY <1>3, <2>1 DEF Alike
  <2>3. Named(told, n)' = ToldOf(n) \/ n \in VrsNames \/ excuse'[n] # {}
    BY <1>1, <1>2 DEF Told
  <2>4. ToldOf(n)' = ToldOf(n)
    BY <1>4, <1>10, <2>2 DEF ToldOf
  <2> QED BY <1>7, <1>10, <2>2, <2>3, <2>4 DEF Told
<1>11. CASE api' = api /\ ~ Speaks(n)
  BY <1>9, <1>11 DEF Speaks
<1> QED BY <1>9, <1>10, <1>11

\* A step that takes a source of a name further on its way to the clients.
LEMMA Forward ==
  ASSUME TypeOK, Casters, Commands, prog = "runs", Next, NEW n \in Name, Wanted(n), Told(n),
         wanted[n] = "added", Alike(Alive, Alive', n), \A i \in byname' : i \in byname \/ i \in Alive',
         UNCHANGED <<delq, told, wanted, api>>
  PROVE  Wanted(n)' /\ Told(n)'
<1>1. /\ \A i \in DOMAIN nameOf : i \in DOMAIN nameOf' /\ nameOf'[i] = nameOf[i]
      /\ excuse'[n] = {} => excuse[n] = {}
  BY GrowStep DEF Grown
<1>2. Named(told, n)' = Named(told, n)
  <2>1. Alike(told, told', n)
    BY DEF Alike
  <2> QED BY <1>1, <2>1, KnownSets, AlikeNamed DEF Named
<1>3. Named(Alive, n)' = Named(Alive, n)
  BY <1>1, KnownSets, AlikeNamed DEF Named
<1>4. Named(byname, n)' \subseteq Alive'
  <2>1. ASSUME NEW i \in byname', nameOf'[i] = n, i \in byname
        PROVE  i \in Alive'
    <3>1. i \in DOMAIN nameOf /\ nameOf[i] = n
      BY <1>1, <2>1, KnownSets
    <3>2. i \in Alive
      BY <2>1, <3>1 DEF Wanted, Named
    <3> QED BY <2>1, <3>2 DEF Alike
  <2> QED BY <2>1 DEF Named
<1>5. Wanted(n)'
  BY <1>3, <1>4 DEF Wanted
<1>6. Speaks(n) => api.id \in DOMAIN nameOf /\ nameOf[api.id] = n
  BY SpokenOf DEF Speaks
<1>7. Speaks(n) => (api.id \in Alive' <=> api.id \in Alive)
  BY <1>1, <1>6 DEF Alike
<1>8. Named(told, n)' = ToldOf(n) \/ n \in VrsNames \/ excuse'[n] # {}
  BY <1>1, <1>2 DEF Told
<1>9. ToldOf(n)' = ToldOf(n)
  BY <1>3 DEF ToldOf
<1> QED BY <1>5, <1>7, <1>8, <1>9 DEF Told, Speaks

\* Where a new source goes, when the program goes on.
LEMMA PlaceComing ==
  ASSUME TypeOK, Casters, prog' = "runs", NEW name \in Name, NEW also \in SUBSET Reason,
         Place(name, also)
  PROVE  LET new == Len(nameOf) + 1
         IN  /\ Longer(new) /\ nameOf'[new] = name /\ UNCHANGED <<byname, delq>>
             /\ Raced(name) \union also \subseteq excuse'[name]
             /\ \/ "no_thread" \in excuse'[name] /\ \A c \in Caster : Coming(c)' = Coming(c)
                \/ \E c \in Caster : /\ Coming(c)' = Coming(c) \union {new}
                                     /\ \A d \in Caster : d # c => Coming(d)' = Coming(d)
<1> DEFINE why == Raced(name) \union also
           new == Len(nameOf) + 1
<1>0. /\ boot \in [Caster -> Boot] /\ todo \in [Caster -> SUBSET DOMAIN nameOf]
      /\ addq \in [Caster -> Seq(DOMAIN nameOf)] /\ \A k \in DOMAIN tbl : boot[tbl[k]] # "none"
  BY DEF TypeOK, Casters
<1>1. /\ InNoQueue(name, why) \/ InHalf(name, why) \/ InQueue(name, why) \/ InNew(name, why)
      /\ Longer(new) /\ nameOf'[new] = name /\ UNCHANGED <<byname, delq>>
  BY <1>0, PlaceCases
<1>2. (prog' = "crashed" /\ prog' = "runs") => FALSE
  OBVIOUS
<1> HIDE DEF why, new
<1>3. CASE InNoQueue(name, why)
  <2>1. why \subseteq excuse'[name] /\ "no_thread" \in excuse'[name]
    BY <1>3 DEF InNoQueue
  <2>2. \A c \in Caster : Coming(c)' = Coming(c)
    BY <1>3 DEF InNoQueue, threads, Coming, Unstarted
  <2> QED BY <1>1, <2>1, <2>2 DEF why, new
<1>4. CASE InHalf(name, why)
  BY <1>2, <1>4 DEF InHalf
<1>5. CASE InQueue(name, why)
  <2>1. PICK c \in Caster :
          /\ addq' = [addq EXCEPT ![c] = Append(@, new)] /\ UNCHANGED <<boot, todo>>
          /\ \A n \in Name : excuse'[n] = IF n = name THEN excuse[n] \union why ELSE excuse[n]
    BY <1>5 DEF InQueue, new, threads
  <2>2. addq'[c] = Append(addq[c], new) /\ addq[c] \in Seq(DOMAIN nameOf \union {new})
    BY <1>0, <2>1, SeqGrows
  <2>3. ElementsOf(addq'[c]) = ElementsOf(addq[c]) \union {new}
    BY <2>2, ElementsAppend
  <2>4. Coming(c)' = Coming(c) \union {new}
    BY <2>1, <2>3 DEF Coming, Unstarted
  <2>5. ASSUME NEW d \in Caster, d # c
        PROVE  Coming(d)' = Coming(d)
    <3>1. addq'[d] = addq[d]
      BY <1>0, <2>1, <2>5
    <3> QED BY <2>1, <3>1 DEF Coming, Unstarted
  <2>6. why \subseteq excuse'[name]
    BY <2>1
  <2> QED BY <1>1, <2>4, <2>5, <2>6 DEF why, new
<1>6. CASE InNew(name, why)
  <2> DEFINE c == NCaster + 1
  <2>1. /\ c \in Caster /\ ~ (c <= NCaster) /\ boot[c] = "none"
        /\ boot' = [boot EXCEPT ![c] = "off"] /\ todo' = [todo EXCEPT ![c] = {new}]
        /\ \A n \in Name : excuse'[n] = IF n = name THEN excuse[n] \union why ELSE excuse[n]
        /\ UNCHANGED addq
    BY <1>6, CasterNumbers DEF InNew, new
  <2> HIDE DEF c
  <2>2. \A d \in Caster : /\ boot'[d] = IF d = c THEN "off" ELSE boot[d]
                          /\ todo'[d] = IF d = c THEN {new} ELSE todo[d]
    BY <1>0, <2>1
  <2>3. todo[c] = {}
    BY <2>1 DEF Casters
  <2>4. Coming(c)' = Coming(c) \union {new}
    BY <2>1, <2>2, <2>3 DEF Coming, Unstarted
  <2>5. ASSUME NEW d \in Caster, d # c
        PROVE  Coming(d)' = Coming(d)
    BY <2>1, <2>2, <2>5 DEF Coming, Unstarted
  <2>6. why \subseteq excuse'[name]
    BY <2>1
  <2> QED BY <1>1, <2>1, <2>4, <2>5, <2>6 DEF why, new
<1> QED BY <1>1, <1>3, <1>4, <1>5, <1>6

\* What holds before a step about which a caller might ask.
Before ==
  /\ TypeOK /\ Casters /\ Commands /\ Places /\ Unique /\ Registered /\ FreedExcused
  /\ prog = "runs" /\ phase = "open" /\ Next /\ prog' = "runs"
Asked(n) == Calm(n) /\ Calm(n)' /\ Wanted(n) /\ Told(n)

\* When nothing is queued for a name, what is alive of it is registered.
LEMMA AliveRegistered ==
  ASSUME TypeOK, Registered, prog = "runs", NEW n \in Name, Calm(n), ~ Queued(n)
  PROVE  Named(Alive, n) \subseteq Named(byname, n)
<1>1. ASSUME NEW i \in Alive, nameOf[i] = n
      PROVE  i \in byname
  <2>1. PICK d \in Caster : i \in Home(d)
    BY DEF Alive
  <2>2. i \in srcs[d] \union Unstarted(d)
    BY <1>1, <2>1 DEF Queued, Home, Coming
  <2>3. i \in byname \/ "raced" \in excuse[n]
    BY <1>1, <2>2 DEF Registered
  <2> QED BY <2>3 DEF Calm
<1> QED BY <1>1 DEF Named

\* A name has one source.
LEMMA OneAlive ==
  ASSUME Unique, NEW n \in Name, Calm(n), NEW i \in Named(Alive, n), NEW j \in Named(Alive, n)
  PROVE  i = j
BY DEF Unique, Named, Calm

LEMMA NotRaced ==
  ASSUME NEW n \in Name, Calm(n)', Raced(n) \subseteq excuse'[n]
  PROVE  ~ Waiting(n)
BY DEF Raced, Calm

\* The threads start.
LEMMA AskedBoot ==
  ASSUME Before, NEW n \in Name, Asked(n), NEW d \in Caster, StartCaster(d) \/ Mark(d) \/ Ready(d)
  PROVE  Wanted(n)' /\ Told(n)'
<1>0. /\ boot \in [Caster -> Boot] /\ todo \in [Caster -> SUBSET DOMAIN nameOf]
      /\ \A c \in Caster : boot[c] = "none" => todo[c] = {}
  BY DEF Before, TypeOK, Casters
<1>1. UNCHANGED <<nameOf, byname, srcs, addq, delq, api, told, wanted>>
  BY DEF StartCaster, Mark, Ready, tables, queues, history
<1>2. ASSUME NEW c \in Caster
      PROVE  Coming(c)' = Coming(c)
  <2>1. CASE StartCaster(d)
    <3>1. CASE c = d
      <4>1. todo'[c] = Share(c) /\ c <= NCaster /\ boot[c] = "none" /\ boot'[c] = "off"
        BY <1>0, <2>1, <3>1 DEF StartCaster
      <4> QED BY <1>0, <1>1, <4>1 DEF Coming, Unstarted
    <3>2. CASE c # d
      <4>1. todo'[c] = todo[c] /\ boot'[c] = boot[c]
        BY <1>0, <2>1, <3>2 DEF StartCaster
      <4> QED BY <1>1, <4>1 DEF Coming, Unstarted
    <3> QED BY <3>1, <3>2
  <2>2. CASE Mark(d) \/ Ready(d)
    <3>1. todo' = todo /\ (boot'[c] = boot[c] \/ (boot[c] # "none" /\ boot'[c] # "none"))
      BY <1>0, <2>2 DEF Mark, Ready
    <3> QED BY <1>1, <3>1 DEF Coming, Unstarted
  <2> QED BY <2>1, <2>2
<1>3. \A c \in Caster : Alike(srcs[c], srcs'[c], n) /\ Alike(Coming(c), Coming(c)', n)
  BY <1>1, <1>2 DEF Alike
<1>4. Alike(byname, byname', n) /\ Alike(told, told', n)
  BY <1>1 DEF Alike
<1> QED BY <1>1, <1>3, <1>4, Frame DEF Before, Asked

\* A caster starts the client of a source.
LEMMA AskedStart ==
  ASSUME Before, NEW n \in Name, Asked(n), NEW d \in Caster, StartSource(d)
  PROVE  Wanted(n)' /\ Told(n)'
<1>0. /\ srcs \in [Caster -> SUBSET DOMAIN nameOf] /\ todo \in [Caster -> SUBSET DOMAIN nameOf]
      /\ excuse \in [Name -> SUBSET Reason] /\ \A i \in DOMAIN nameOf : nameOf[i] \in Name
  BY DEF Before, TypeOK, Reason
<1>1. UNCHANGED <<nameOf, byname, boot, addq, delq, api, told, wanted>>
  BY DEF StartSource, tables, queues
<1>2. PICK i \in todo[d] :
        /\ todo' = [todo EXCEPT ![d] = @ \ {i}]
        /\ \/ srcs' = [srcs EXCEPT ![d] = @ \union {i}]
           \/ srcs' = srcs /\ Excuse(nameOf[i], {"not_started"})
  BY DEF StartSource
<1>3. /\ todo'[d] = todo[d] \ {i} /\ \A c \in Caster : c # d => todo'[c] = todo[c]
      /\ \A c \in Caster : c # d => srcs'[c] = srcs[c]
      /\ srcs'[d] = srcs[d] \union {i} \/ srcs'[d] = srcs[d]
  BY <1>0, <1>2
<1>4. Alike(byname, byname', n) /\ Alike(told, told', n)
  BY <1>1 DEF Alike
<1>5. CASE nameOf[i] # n
  <2>1. \A c \in Caster : Alike(srcs[c], srcs'[c], n) /\ Alike(Coming(c), Coming(c)', n)
    BY <1>1, <1>3, <1>5 DEF Alike, Coming, Unstarted
  <2> QED BY <1>1, <1>4, <2>1, Frame DEF Before, Asked
<1>6. CASE nameOf[i] = n
  <2>1. srcs' = [srcs EXCEPT ![d] = @ \union {i}]
    <3>1. CASE Excuse(n, {"not_started"})
      <4>1. "not_started" \in excuse'[n]
        BY <1>0, <3>1 DEF Excuse
      <4> QED BY <4>1 DEF Asked, Calm
    <3> QED BY <1>2, <1>6, <3>1
  <2>2. srcs'[d] = srcs[d] \union {i}
    BY <1>0, <2>1
  <2>3. \A c \in Caster : Home(c)' = Home(c)
    BY <1>1, <1>3, <2>2 DEF Home, Coming, Unstarted
  <2>4. Alive' = Alive
    BY <2>3 DEF Alive
  <2>5. wanted[n] = "added"
    <3>1. i \in Named(Coming(d), n)
      BY <1>6 DEF Named, Coming
    <3>2. wanted[n] \in {"added", "deleted"}
      BY DEF Before, TypeOK
    <3> QED BY <3>1, <3>2 DEF Asked, Wanted
  <2>6. Alike(Alive, Alive', n)
    BY <2>4 DEF Alike
  <2> QED BY <1>1, <2>5, <2>6, Forward DEF Before, Asked
<1> QED BY <1>5, <1>6

\* A caster comes to a source that was added.
LEMMA AskedAdd ==
  ASSUME Before, NEW n \in Name, Asked(n), NEW d \in Caster, DoAdd(d)
  PROVE  Wanted(n)' /\ Told(n)'
<1> DEFINE i == Head(addq[d])
<1>0. /\ srcs \in [Caster -> SUBSET DOMAIN nameOf] /\ addq \in [Caster -> Seq(DOMAIN nameOf)]
      /\ excuse \in [Name -> SUBSET Reason] /\ \A j \in DOMAIN nameOf : nameOf[j] \in Name
  BY DEF Before, TypeOK, Reason
<1>1. UNCHANGED <<nameOf, boot, todo, delq, api, told, wanted>>
  BY DEF DoAdd, threads
<1>2. /\ addq[d] # <<>> /\ addq' = [addq EXCEPT ![d] = Tail(@)]
      /\ \/ Named(srcs[d], nameOf[i]) # {} /\ UNCHANGED <<srcs, byname>>
         \/ Excuse(nameOf[i], {"not_started"}) /\ UNCHANGED <<srcs, byname>>
         \/ srcs' = [srcs EXCEPT ![d] = @ \union {i}] /\ byname' = byname \union {i}
  BY DEF DoAdd
<1>3. /\ ElementsOf(addq[d]) = {i} \union ElementsOf(addq'[d])
      /\ \A c \in Caster : c # d => addq'[c] = addq[c]
  <2>1. addq'[d] = Tail(addq[d]) /\ \A c \in Caster : c # d => addq'[c] = addq[c]
    BY <1>0, <1>2
  <2> QED BY <1>0, <1>2, <2>1, ElementsTail
<1> HIDE DEF i
<1>4. i \in ElementsOf(addq[d])
  BY <1>3
<1>5. CASE nameOf[i] # n
  <2>1. /\ srcs'[d] = srcs[d] \union {i} \/ srcs'[d] = srcs[d]
        /\ \A c \in Caster : c # d => srcs'[c] = srcs[c]
    BY <1>0, <1>2
  <2>2. \A c \in Caster : Alike(srcs[c], srcs'[c], n) /\ Alike(Coming(c), Coming(c)', n)
    BY <1>1, <1>3, <1>5, <2>1 DEF Alike, Coming, Unstarted
  <2>3. Alike(byname, byname', n) /\ Alike(told, told', n)
    BY <1>1, <1>2, <1>5 DEF Alike
  <2> QED BY <1>1, <2>2, <2>3, Frame DEF Before, Asked
<1>6. CASE nameOf[i] = n
  <2>1. ASSUME Named(srcs[d], n) # {}
        PROVE  FALSE
    <3>1. PICK j \in srcs[d] : nameOf[j] = n
      BY <2>1 DEF Named
    <3>2. i # j
      BY <1>4, <3>1 DEF Before, Places, Apart, Coming
    <3>3. i \in Named(Alive, n) /\ j \in Named(Alive, n)
      BY <1>4, <1>6, <3>1 DEF Named, Alive, Home, Coming
    <3> QED BY <3>2, <3>3, OneAlive DEF Before, Asked
  <2>2. ASSUME Excuse(n, {"not_started"})
        PROVE  FALSE
    <3>1. "not_started" \in excuse'[n]
      BY <1>0, <2>2 DEF Excuse
    <3> QED BY <3>1 DEF Asked, Calm
  <2>3. srcs' = [srcs EXCEPT ![d] = @ \union {i}] /\ byname' = byname \union {i}
    BY <1>2, <1>6, <2>1, <2>2
  <2>4. srcs'[d] = srcs[d] \union {i} /\ \A c \in Caster : c # d => srcs'[c] = srcs[c]
    BY <1>0, <2>3
  <2>5. \A c \in Caster : Home(c)' = Home(c)
    BY <1>1, <1>3, <2>4 DEF Home, Coming, Unstarted
  <2>6. Alive' = Alive /\ i \in Alive
    BY <1>4, <2>5 DEF Alive, Home, Coming
  <2>7. wanted[n] = "added"
    <3>1. i \in Named(Coming(d), n)
      BY <1>4, <1>6 DEF Named, Coming
    <3>2. wanted[n] \in {"added", "deleted"}
      BY DEF Before, TypeOK
    <3> QED BY <3>1, <3>2 DEF Asked, Wanted
  <2>8. Alike(Alive, Alive', n)
    BY <2>6 DEF Alike
  <2> QED BY <1>1, <2>3, <2>6, <2>7, <2>8, Forward DEF Before, Asked
<1> QED BY <1>5, <1>6

\* A caster comes to a name that was deleted.
LEMMA AskedDel ==
  ASSUME Before, NEW n \in Name, Asked(n), NEW d \in Caster, DoDel(d)
  PROVE  Wanted(n)' /\ Told(n)'
<1> DEFINE name == Head(delq[d])
           s == Named(srcs[d], name)
<1>0. /\ srcs \in [Caster -> SUBSET DOMAIN nameOf] /\ delq \in [Caster -> Seq(Name)]
      /\ excuse \in [Name -> SUBSET Reason]
  BY DEF Before, TypeOK, Reason
<1>1. UNCHANGED <<nameOf, boot, todo, addq, api, told, wanted>>
  BY DEF DoDel, threads
<1>2. /\ delq[d] # <<>> /\ delq' = [delq EXCEPT ![d] = Tail(@)]
      /\ \/ s = {} /\ UNCHANGED <<srcs, byname>>
         \/ prog' = "crashed"
         \/ srcs' = [srcs EXCEPT ![d] = @ \ s] /\ \E i \in Named(byname, name) : byname' = byname \ {i}
         \/ /\ srcs' = [srcs EXCEPT ![d] = @ \ s] /\ Excuse(name, {"name_freed"}) /\ UNCHANGED byname
  BY DEF DoDel, Unregister
<1>3. prog' # "crashed"
  BY DEF Before
<1>4. /\ ElementsOf(delq[d]) = {name} \union ElementsOf(delq'[d]) /\ name \in Name
      /\ \A c \in Caster : c # d => delq'[c] = delq[c]
  <2>1. delq'[d] = Tail(delq[d]) /\ \A c \in Caster : c # d => delq'[c] = delq[c]
    BY <1>0, <1>2
  <2> QED BY <1>0, <1>2, <2>1, ElementsTail
<1> HIDE DEF name
<1>5. /\ srcs'[d] = srcs[d] \ s \/ (srcs'[d] = srcs[d] /\ s = {})
      /\ \A c \in Caster : c # d => srcs'[c] = srcs[c]
  BY <1>0, <1>2, <1>3
<1>6. \A c \in Caster : Coming(c)' = Coming(c)
  BY <1>1 DEF Coming, Unstarted
<1>7. byname' \subseteq byname /\ \A i \in byname : nameOf[i] # name => i \in byname'
  BY <1>2, <1>3 DEF Named
<1>8. CASE name # n
  <2>1. \A c \in Caster : Alike(srcs[c], srcs'[c], n) /\ Alike(Coming(c), Coming(c)', n)
    BY <1>1, <1>5, <1>6, <1>8 DEF Alike, Named
  <2>2. Alike(byname, byname', n) /\ Alike(told, told', n)
    BY <1>1, <1>7, <1>8 DEF Alike
  <2>3. \A c \in Caster : n \in ElementsOf(delq'[c]) <=> n \in ElementsOf(delq[c])
    BY <1>4, <1>8
  <2> QED BY <1>1, <2>1, <2>2, <2>3, Frame DEF Before, Asked
<1>9. CASE name = n
  <2>1. wanted[n] = "deleted"
    <3>1. n \in ElementsOf(delq[d])
      BY <1>4, <1>9
    <3>2. wanted[n] \in {"added", "deleted"}
      BY DEF Before, TypeOK
    <3> QED BY <3>1, <3>2 DEF Asked, Wanted
  <2>2. ~ Excuse(n, {"name_freed"})
    <3>1. Excuse(n, {"name_freed"}) => "name_freed" \in excuse'[n]
      BY <1>0 DEF Excuse
    <3> QED BY <3>1 DEF Asked, Calm
  <2>3. \/ s = {} /\ UNCHANGED <<srcs, byname>>
        \/ srcs' = [srcs EXCEPT ![d] = @ \ s] /\ \E i \in Named(byname, n) : byname' = byname \ {i}
    BY <1>2, <1>3, <1>9, <2>2
  <2>4. Named(srcs'[d], n) = {}
    BY <1>5, <1>9 DEF Named
  <2>5. \A c \in Caster : /\ Named(Coming(c), n)' = {}
                          /\ Named(srcs[c], n)' # {} => n \in ElementsOf(delq'[c])
    <3>1. ASSUME NEW c \in Caster
          PROVE  /\ Named(Coming(c), n)' = {}
                 /\ Named(srcs[c], n)' # {} => n \in ElementsOf(delq'[c])
      <4>1. Named(Coming(c), n) = {} /\ (Named(srcs[c], n) # {} => n \in ElementsOf(delq[c]))
        BY <2>1 DEF Asked, Wanted
      <4>2. Named(Coming(c), n)' = {}
        BY <1>1, <1>6, <4>1 DEF Named
      <4>3. CASE c = d
        BY <1>1, <2>4, <4>2, <4>3 DEF Named
      <4>4. CASE c # d
        BY <1>1, <1>4, <1>5, <4>1, <4>2, <4>4 DEF Named
      <4> QED BY <4>3, <4>4
    <3> QED BY <3>1
  <2>6. Named(byname, n) \subseteq Named(Alive, n)
    BY DEF Asked, Wanted, Named
  <2>7. Named(byname, n)' \subseteq Alive'
    <3>1. CASE s = {} /\ UNCHANGED <<srcs, byname>>
      <4>1. Alive' = Alive
        BY <1>6, <3>1 DEF Alive, Home
      <4> QED BY <1>1, <2>6, <3>1, <4>1 DEF Named
    <3>2. CASE \E i \in Named(byname, n) : byname' = byname \ {i}
      <4>1. PICK i \in Named(byname, n) : byname' = byname \ {i}
        BY <3>2
      <4>2. \A j \in Named(byname, n) : j = i
        BY <2>6, OneAlive DEF Before, Asked
      <4>3. Named(byname, n)' = {}
        BY <1>1, <4>1, <4>2 DEF Named
      <4> QED BY <4>3
    <3> QED BY <2>3, <3>1, <3>2
  <2>8. Wanted(n)'
    BY <1>1, <2>1, <2>5, <2>7 DEF Wanted
  <2>9. excuse'[n] = {} => excuse[n] = {}
    BY GrowStep DEF Grown, Before
  <2>10. Named(told, n)' = Named(told, n) /\ ToldOf(n)' = ToldOf(n)
    BY <1>1, <2>1 DEF Named, ToldOf
  <2> QED BY <1>1, <2>1, <2>8, <2>9, <2>10 DEF Asked, Told
<1> QED BY <1>8, <1>9

\* A source of another name is placed.
LEMMA PlaceOther ==
  ASSUME Before, NEW n \in Name, Asked(n), NEW name \in Name, NEW also \in SUBSET Reason,
         Place(name, also), name # n, UNCHANGED <<srcs, told>>, wanted'[n] = wanted[n],
         api' = api \/ (~ Speaks(n) /\ ~ Speaks(n)')
  PROVE  Wanted(n)' /\ Told(n)'
<1> DEFINE new == Len(nameOf) + 1
<1>1. /\ nameOf'[new] = name /\ UNCHANGED <<byname, delq>>
      /\ \A c \in Caster : Coming(c)' = Coming(c) \/ Coming(c)' = Coming(c) \union {new}
  BY PlaceComing DEF Before
<1> HIDE DEF new
<1>2. \A c \in Caster : Alike(srcs[c], srcs'[c], n) /\ Alike(Coming(c), Coming(c)', n)
  BY <1>1 DEF Alike
<1>3. Alike(byname, byname', n) /\ Alike(told, told', n)
  BY <1>1 DEF Alike
<1> QED BY <1>1, <1>2, <1>3, Frame DEF Before, Asked

\* A source of the name is placed.
LEMMA PlaceSame ==
  ASSUME Before, NEW n \in Name, Asked(n), NEW also \in SUBSET Reason,
         Place(n, also), Named(byname, n) = {}, UNCHANGED srcs, wanted'[n] = "added"
  PROVE  LET new == Len(nameOf) + 1
         IN  /\ Wanted(n)' /\ ~ Waiting(n) /\ new \in Alive' /\ new \notin told
             /\ Named(Alive, n) = {} /\ nameOf'[new] = n /\ also \subseteq excuse'[n]
<1> DEFINE new == Len(nameOf) + 1
<1>1. /\ nameOf'[new] = n /\ UNCHANGED <<byname, delq>> /\ new \notin DOMAIN nameOf
      /\ Raced(n) \union also \subseteq excuse'[n]
      /\ \/ "no_thread" \in excuse'[n]
         \/ \E c \in Caster : /\ Coming(c)' = Coming(c) \union {new}
                              /\ \A d \in Caster : d # c => Coming(d)' = Coming(d)
  BY PlaceComing DEF Before, Longer
<1> HIDE DEF new
<1>2. ~ Waiting(n)
  BY <1>1, NotRaced DEF Asked
<1>3. PICK c \in Caster : /\ Coming(c)' = Coming(c) \union {new}
                          /\ \A d \in Caster : d # c => Coming(d)' = Coming(d)
  BY <1>1 DEF Asked, Calm
<1>4. new \in Alive'
  BY <1>3 DEF Alive, Home
<1>5. Named(Alive, n) = {}
  BY <1>2, AliveRegistered DEF Before, Asked, Waiting
<1>6. Named(Alive, n)' # {}
  BY <1>1, <1>4 DEF Named
<1>7. \A d \in Caster : n \notin ElementsOf(delq'[d])
  BY <1>1, <1>2 DEF Waiting, Queued
<1>8. Named(byname, n)' \subseteq Alive'
  <2>1. \A i \in byname : nameOf'[i] = nameOf[i]
    BY GrowStep, KnownSets DEF Grown, Before
  <2> QED BY <1>1, <2>1 DEF Named
<1>9. Wanted(n)'
  BY <1>6, <1>7, <1>8 DEF Wanted
<1>10. new \notin told
  BY <1>1, KnownSets DEF Before
<1> QED BY <1>1, <1>2, <1>4, <1>5, <1>9, <1>10 DEF new

\* Without a source of the name nothing of it was told.
LEMMA NothingTold ==
  ASSUME NEW n \in Name, Told(n), Named(Alive, n) = {}, n \notin VrsNames, excuse[n] = {}
  PROVE  Named(told, n) = {}
BY DEF Told, ToldOf

LEMMA AskedAddSource ==
  ASSUME Before, NEW n \in Name, Asked(n), NEW name \in Name, AddSource(name)
  PROVE  Wanted(n)' /\ Told(n)'
<1>0. /\ wanted \in [Name -> {"added", "deleted"}] /\ excuse \in [Name -> SUBSET Reason]
      /\ api = Idle /\ api.op \notin {"tell", "del"} /\ ~ Speaks(n)
      /\ \A i \in DOMAIN nameOf : nameOf'[i] = nameOf[i]
      /\ excuse'[n] = {} => excuse[n] = {}
  BY GrowStep, SpokenOf DEF Before, TypeOK, Reason, AddSource, Speaks, Grown
<1>1. /\ name \notin VrsNames /\ wanted' = [wanted EXCEPT ![name] = "added"] /\ UNCHANGED <<srcs, told>>
      /\ \/ /\ Named(byname, name) # {} /\ Excuse(name, Raced(name))
            /\ UNCHANGED <<tables, threads, queues, api>>
         \/ /\ Named(byname, name) = {} /\ Place(name, {})
            /\ api' = [op |-> "tell", id |-> Len(nameOf'), name |-> name]
  BY DEF AddSource
<1>2. \A m \in Name : wanted'[m] = IF m = name THEN "added" ELSE wanted[m]
  BY <1>0, <1>1
<1>3. CASE UNCHANGED <<tables, threads, queues, api>> /\ name # n
  <2>1. \A c \in Caster : Alike(srcs[c], srcs'[c], n) /\ Alike(Coming(c), Coming(c)', n)
    BY <1>1, <1>3 DEF Alike, Coming, Unstarted, threads, queues
  <2>2. Alike(byname, byname', n) /\ Alike(told, told', n) /\ UNCHANGED delq
    BY <1>1, <1>3 DEF Alike, tables, queues
  <2> QED BY <1>2, <1>3, <2>1, <2>2, Frame DEF Before, Asked
<1>4. CASE Place(name, {}) /\ api' = [op |-> "tell", id |-> Len(nameOf'), name |-> name] /\ name # n
  <2>1. api'.name = name
    BY <1>4
  <2>2. ~ Speaks(n)'
    BY <1>4, <2>1 DEF Speaks
  <2> QED BY <1>0, <1>1, <1>2, <1>4, <2>2, PlaceOther
\* The source is there already.
<1>5. CASE Named(byname, n) # {} /\ Excuse(n, Raced(n)) /\ UNCHANGED <<tables, threads, queues, api>> /\ name = n
  <2>1. Raced(n) \subseteq excuse'[n]
    BY <1>0, <1>5 DEF Excuse
  <2>2. ~ Waiting(n)
    BY <2>1, NotRaced DEF Asked
  <2>3. Named(Alive, n) # {}
    BY <1>5 DEF Asked, Wanted, Named
  <2>4. wanted[n] = "added"
    <3>1. PICK c \in Caster : Named(srcs[c], n) # {} \/ Named(Coming(c), n) # {}
      BY <2>3 DEF Named, Alive, Home
    <3>2. n \notin ElementsOf(delq[c])
      BY <2>2 DEF Waiting, Queued
    <3> QED BY <1>0, <3>1, <3>2 DEF Asked, Wanted
  <2>5. Alive' = Alive
    BY <1>1, <1>5 DEF Alive, Home, Coming, Unstarted, threads, queues
  <2>6. Alike(Alive, Alive', n)
    BY <2>5 DEF Alike
  <2>7. UNCHANGED <<delq, told, api, byname>> /\ wanted' = wanted
    BY <1>0, <1>1, <1>2, <1>5, <2>4 DEF queues, tables
  <2> QED BY <2>4, <2>6, <2>7, Forward DEF Before, Asked
\* It is placed.
<1>6. CASE /\ Named(byname, n) = {} /\ Place(n, {}) /\ name = n
           /\ api' = [op |-> "tell", id |-> Len(nameOf'), name |-> n]
  <2> DEFINE new == Len(nameOf) + 1
  <2>1. /\ Wanted(n)' /\ new \in Alive' /\ new \notin told /\ Named(Alive, n) = {} /\ nameOf'[new] = n
    BY <1>1, <1>2, <1>6, PlaceSame
  <2>2. Len(nameOf') = new
    BY <1>6 DEF Before, TypeOK, Place
  <2>3. api'.op = "tell" /\ api'.id = new /\ api'.name = n
    BY <1>6, <2>2
  <2> HIDE DEF new
  <2>4. n \notin VrsNames /\ excuse'[n] = {} => Named(told, n)' = {}
    <3>1. n \notin VrsNames /\ excuse'[n] = {} => Named(told, n) = {}
      BY <1>0, <2>1, NothingTold DEF Asked
    <3>2. Named(told, n)' = Named(told, n)
      BY <1>0, <1>1, KnownSets DEF Named, Before
    <3> QED BY <3>1, <3>2
  <2>5. ToldOf(n)' = {}
    BY <1>1, <2>1, <2>3 DEF ToldOf
  <2> QED BY <1>2, <1>6, <2>1, <2>3, <2>4, <2>5 DEF Told
<1> QED BY <1>1, <1>3, <1>4, <1>5, <1>6

LEMMA AskedAddUntold ==
  ASSUME Before, NEW n \in Name, Asked(n), NEW name \in Name, AddUntold(name)
  PROVE  Wanted(n)' /\ Told(n)'
<1>0. wanted \in [Name -> {"added", "deleted"}]
  BY DEF Before, TypeOK
<1>1. /\ Named(byname, name) = {} /\ Place(name, {"untold"})
      /\ wanted' = [wanted EXCEPT ![name] = "added"] /\ UNCHANGED <<srcs, api, told>>
  BY DEF AddUntold
<1>2. {"untold"} \in SUBSET Reason
  BY DEF Reason
<1>3. \A m \in Name : wanted'[m] = IF m = name THEN "added" ELSE wanted[m]
  BY <1>0, <1>1
<1>4. CASE name # n
  BY <1>1, <1>2, <1>3, <1>4, PlaceOther
<1>5. CASE name = n
  <2>1. Wanted(n)' /\ ~ Waiting(n) /\ {"untold"} \subseteq excuse'[n]
    BY <1>1, <1>2, <1>3, <1>5, PlaceSame
  <2>2. ~ Speaks(n)'
    BY <1>1, <2>1 DEF Speaks, Waiting
  <2> QED BY <2>1, <2>2 DEF Told, Speaks
<1> QED BY <1>4, <1>5

\* The network is told of a source.
LEMMA AskedTell ==
  ASSUME Before, NEW n \in Name, Asked(n), Tell
  PROVE  Wanted(n)' /\ Told(n)'
<1>0. /\ api # Idle /\ api.op = "tell" /\ api' = Idle /\ api.id \in DOMAIN nameOf /\ nameOf[api.id] = api.name
      /\ told' = told \union {api.id} \/ (api.id \in freed /\ told' = told)
      /\ UNCHANGED <<nameOf, byname, freed, boot, todo, srcs, addq, delq, wanted, excuse>>
      /\ ~ Speaks(n)'
  BY SpokenOf DEF Tell, Before, tables, threads, queues, history, Speaks
<1>1. \A c \in Caster : Coming(c)' = Coming(c)
  BY <1>0 DEF Coming, Unstarted
<1>2. CASE api.name # n
  <2>1. \A c \in Caster : Alike(srcs[c], srcs'[c], n) /\ Alike(Coming(c), Coming(c)', n)
    BY <1>0, <1>1 DEF Alike
  <2>2. Alike(byname, byname', n) /\ Alike(told, told', n)
    BY <1>0, <1>2 DEF Alike
  <2> QED BY <1>0, <1>2, <2>1, <2>2, Frame DEF Before, Asked, Speaks
<1>3. CASE api.name = n
  <2>1. wanted[n] = "added" /\ api.id \in Alive
    BY <1>0, <1>3 DEF Asked, Told
  <2>2. told' = told \union {api.id}
    BY <1>0, <1>3 DEF Before, FreedExcused, Asked, Calm
  <2>3. Alive' = Alive
    BY <1>0, <1>1 DEF Alive, Home
  <2>4. api.id \in Named(Alive, n) /\ \A i \in Named(Alive, n) : i = api.id
    <3>1. api.id \in Named(Alive, n)
      BY <1>0, <1>3, <2>1 DEF Named
    <3> QED BY <3>1, OneAlive DEF Before, Asked
  <2>5. Named(Alive, n)' = Named(Alive, n)
    BY <1>0, <2>3 DEF Named
  <2>6. Wanted(n)'
    <3>1. /\ Named(byname, n)' \subseteq Alive' /\ Named(Alive, n)' # {}
          /\ \A c \in Caster : n \notin ElementsOf(delq'[c])
      <4>1. Named(byname, n)' = Named(byname, n)
        BY <1>0 DEF Named
      <4> QED BY <1>0, <2>1, <2>3, <2>5, <4>1 DEF Asked, Wanted
    <3>2. wanted'[n] # "deleted"
      BY <1>0, <2>1
    <3> QED BY <3>1, <3>2 DEF Wanted
  <2>7. n \notin VrsNames /\ excuse[n] = {} => Named(told, n)' = Named(Alive, n)
    <3>1. n \notin VrsNames /\ excuse[n] = {} =>
            Named(told, n) = IF api.id \notin told THEN {} ELSE Named(Alive, n)
      BY <1>0, <1>3, <2>1 DEF Asked, Told, ToldOf
    <3>2. Named(told, n)' = Named(told, n) \union {api.id}
      BY <1>0, <1>3, <2>2 DEF Named
    <3> QED BY <2>4, <3>1, <3>2
  <2>8. ToldOf(n)' = Named(Alive, n)
    <3>1. api'.op # "tell" /\ wanted'[n] # "deleted"
      BY <1>0, <2>1 DEF Idle
    <3> QED BY <2>5, <3>1 DEF ToldOf
  <2> QED BY <1>0, <2>6, <2>7, <2>8 DEF Told, Speaks
<1> QED BY <1>2, <1>3

\* A source is looked up to be deleted.
LEMMA AskedFind ==
  ASSUME Before, NEW n \in Name, Asked(n), NEW name \in Name, FindSource(name)
  PROVE  Wanted(n)' /\ Told(n)'
<1>0. /\ wanted \in [Name -> {"added", "deleted"}] /\ excuse \in [Name -> SUBSET Reason]
      /\ api = Idle /\ api.op # "tell" /\ ~ Speaks(n) /\ (excuse'[n] = {} => excuse[n] = {})
  BY GrowStep, SpokenOf DEF Before, TypeOK, Reason, FindSource, Speaks, Grown
<1>1. /\ UNCHANGED <<nameOf, byname, boot, todo, srcs, addq, delq, told>>
      /\ \/ /\ Named(byname, name) = {} /\ Excuse(name, Raced(name))
            /\ wanted' = [wanted EXCEPT ![name] = "deleted"] /\ UNCHANGED api
         \/ /\ \E i \in Named(byname, name) : api' = [op |-> "del", id |-> i, name |-> name]
            /\ UNCHANGED wanted
  BY DEF FindSource, tables, threads, queues
<1>2. \A c \in Caster : Coming(c)' = Coming(c)
  BY <1>1 DEF Coming, Unstarted
<1>3. Alive' = Alive
  BY <1>1, <1>2 DEF Alive, Home
<1>4. /\ \A c \in Caster : Alike(srcs[c], srcs'[c], n) /\ Alike(Coming(c), Coming(c)', n)
      /\ Alike(byname, byname', n) /\ Alike(told, told', n)
  BY <1>1, <1>2 DEF Alike
<1>5. CASE name # n
  <2>1. wanted'[n] = wanted[n]
    BY <1>0, <1>1, <1>5
  <2>2. api' = api \/ ~ Speaks(n)'
    <3>1. ASSUME NEW i, api' = [op |-> "del", id |-> i, name |-> name]
          PROVE  ~ Speaks(n)'
      <4>1. api'.name = name
        BY <3>1
      <4> QED BY <1>5, <4>1 DEF Speaks
    <3> QED BY <1>1, <3>1
  <2> QED BY <1>0, <1>1, <1>4, <2>1, <2>2, Frame DEF Before, Asked
\* It is not there.
<1>6. CASE /\ Named(byname, n) = {} /\ Excuse(n, Raced(n)) /\ name = n
           /\ wanted' = [wanted EXCEPT ![n] = "deleted"] /\ UNCHANGED api
  <2>1. Raced(n) \subseteq excuse'[n]
    BY <1>0, <1>6 DEF Excuse
  <2>2. ~ Waiting(n)
    BY <2>1, NotRaced DEF Asked
  <2>3. Named(Alive, n) = {}
    BY <1>6, <2>2, AliveRegistered DEF Before, Asked, Waiting
  <2>4. wanted'[n] = "deleted"
    BY <1>0, <1>6
  <2>5. \A c \in Caster : Named(Coming(c), n)' = {} /\ Named(srcs[c], n)' = {}
    <3>1. \A c \in Caster : Named(Coming(c), n) = {} /\ Named(srcs[c], n) = {}
      BY <2>3 DEF Named, Alive, Home
    <3> QED BY <1>1, <1>2, <3>1 DEF Named
  <2>6. Named(byname, n)' = {} /\ Named(told, n)' = Named(told, n)
    BY <1>1, <1>6 DEF Named
  <2>7. Wanted(n)'
    BY <2>4, <2>5, <2>6 DEF Wanted
  <2>8. ToldOf(n)' = {}
    BY <2>4 DEF ToldOf
  <2>9. n \notin VrsNames /\ excuse'[n] = {} => Named(told, n) = {}
    BY <1>0, <2>3, NothingTold DEF Asked
  <2> QED BY <1>0, <1>6, <2>6, <2>7, <2>8, <2>9 DEF Told, Speaks
\* It is.
<1>7. ASSUME NEW i \in Named(byname, n), api' = [op |-> "del", id |-> i, name |-> n], UNCHANGED wanted
      PROVE  Wanted(n)' /\ Told(n)'
  <2>1. api'.op = "del" /\ api'.id = i /\ api'.name = n
    BY <1>7
  <2>2. Named(byname, n)' = Named(byname, n) /\ Named(told, n)' = Named(told, n)
        /\ Named(Alive, n)' = Named(Alive, n)
        /\ \A c \in Caster : Named(Coming(c), n)' = Named(Coming(c), n) /\ Named(srcs[c], n)' = Named(srcs[c], n)
    BY <1>1, <1>2, <1>3 DEF Named
  <2>3. Wanted(n)'
    BY <1>1, <1>3, <1>7, <2>2 DEF Asked, Wanted
  <2>4. i \in Alive'
    BY <1>3, <1>7 DEF Asked, Wanted
  <2>5. api'.op # "tell"
    BY <2>1
  <2>6. ToldOf(n)' = ToldOf(n)
    BY <1>0, <1>7, <2>2, <2>5 DEF ToldOf
  <2> QED BY <1>0, <2>1, <2>2, <2>3, <2>4, <2>5, <2>6 DEF Asked, Told
<1> QED BY <1>1, <1>5, <1>6, <1>7

\* Every caster that runs is told of a deletion.
LEMMA Queues ==
  ASSUME Before, NEW n \in Name, Asked(n), ~ Queued(n),
         NEW because \in SUBSET Cause, NEW why \in SUBSET Reason,
         QueueDeletion(n, because, why), UNCHANGED <<nameOf, byname, boot, todo, srcs, addq>>
  PROVE  /\ Wanted(n)' /\ wanted'[n] = "deleted"
         /\ \A c \in Caster : Unstarted(c) = {}
<1>0. delq \in [Caster -> Seq(Name)] /\ wanted \in [Name -> {"added", "deleted"}]
  BY DEF Before, TypeOK
<1>1. /\ \A c \in Caster : delq'[c] = IF boot[c] = "ready" THEN Append(delq[c], n) ELSE delq[c]
      /\ prog' = IF \E c \in Caster : boot[c] = "half" THEN "crashed" ELSE prog
      /\ (\E c \in 1 .. NCaster : boot[c] \in {"none", "off"}) => "no_thread" \in excuse'[n]
      /\ wanted' = [wanted EXCEPT ![n] = "deleted"]
  BY DeletionAt DEF Before
<1>2. wanted'[n] = "deleted"
  BY <1>0, <1>1
<1>3. \A c \in 1 .. NCaster : boot[c] \notin {"none", "off"}
  BY <1>1 DEF Asked, Calm
<1>4. \A c \in Caster : Unstarted(c) = {}
  BY <1>3, CasterNumbers DEF Unstarted
<1>5. ASSUME NEW c \in Caster
      PROVE  /\ Named(Coming(c), n)' = {}
             /\ Named(srcs[c], n)' # {} => n \in ElementsOf(delq'[c])
  <2>1. Named(Coming(c), n) = {}
    BY <1>4 DEF Named, Coming, Queued
  <2>2. Coming(c)' = Coming(c)
    BY DEF Coming, Unstarted
  <2>3. Named(Coming(c), n)' = {}
    BY <2>1, <2>2 DEF Named
  <2>4. ASSUME Named(srcs[c], n)' # {}
        PROVE  n \in ElementsOf(delq'[c])
    <3>1. boot[c] = "ready"
      BY <2>4 DEF Before, Casters, Named
    <3>2. delq'[c] = Append(delq[c], n) /\ delq[c] \in Seq(Name)
      BY <1>0, <1>1, <3>1
    <3>3. ElementsOf(delq'[c]) = ElementsOf(delq[c]) \union {n}
      BY <3>2, ElementsAppend
    <3> QED BY <3>3
  <2> QED BY <2>3, <2>4
<1>6. Named(byname, n)' \subseteq Alive'
  <2>1. \A c \in Caster : Coming(c)' = Coming(c)
    BY DEF Coming, Unstarted
  <2>2. Alive' = Alive
    BY <2>1 DEF Alive, Home
  <2> QED BY <2>2 DEF Asked, Wanted, Named
<1>7. wanted'[n] # "added"
  BY <1>2
<1>8. Wanted(n)'
  BY <1>5, <1>6, <1>7 DEF Wanted
<1> QED BY <1>2, <1>4, <1>8

\* A deletion of another name.
LEMMA QueuesOther ==
  ASSUME Before, NEW n \in Name, Asked(n), NEW name \in Name, name # n,
         NEW because \in SUBSET Cause, NEW why \in SUBSET Reason,
         QueueDeletion(name, because, why), UNCHANGED <<nameOf, byname, boot, todo, srcs, addq>>,
         Alike(told, told', n), api' = api \/ (~ Speaks(n) /\ ~ Speaks(n)')
  PROVE  Wanted(n)' /\ Told(n)'
<1>0. delq \in [Caster -> Seq(Name)] /\ wanted \in [Name -> {"added", "deleted"}]
  BY DEF Before, TypeOK
<1>1. /\ \A c \in Caster : delq'[c] = IF boot[c] = "ready" THEN Append(delq[c], name) ELSE delq[c]
      /\ wanted' = [wanted EXCEPT ![name] = "deleted"]
  BY DeletionAt DEF Before
<1>2. wanted'[n] = wanted[n]
  BY <1>0, <1>1
<1>3. ASSUME NEW c \in Caster
      PROVE  n \in ElementsOf(delq'[c]) <=> n \in ElementsOf(delq[c])
  <2>1. delq[c] \in Seq(Name) /\ (delq'[c] = Append(delq[c], name) \/ delq'[c] = delq[c])
    BY <1>0, <1>1
  <2>2. CASE delq'[c] = Append(delq[c], name)
    <3>1. ElementsOf(delq'[c]) = ElementsOf(delq[c]) \union {name}
      BY <2>1, <2>2, ElementsAppend
    <3> QED BY <3>1
  <2> QED BY <2>1, <2>2
<1>4. \A c \in Caster : Coming(c)' = Coming(c)
  BY DEF Coming, Unstarted
<1>5. /\ \A c \in Caster : Alike(srcs[c], srcs'[c], n) /\ Alike(Coming(c), Coming(c)', n)
      /\ Alike(byname, byname', n)
  BY <1>4 DEF Alike
<1> QED BY <1>2, <1>3, <1>5, Frame DEF Before, Asked

LEMMA AskedDelVsta ==
  ASSUME Before, NEW n \in Name, Asked(n), NEW name \in Name, DelVsta(name)
  PROVE  Wanted(n)' /\ Told(n)'
<1>1. /\ name \in VrsNames /\ QueueDeletion(name, {"no_client"}, Raced(name))
      /\ UNCHANGED <<nameOf, byname, boot, todo, srcs, addq, api, told>>
  BY DEF DelVsta, tables, threads
<1>2. {"no_client"} \in SUBSET Cause /\ Raced(name) \in SUBSET Reason
  BY DEF Cause, Reason, Raced
<1>3. CASE name # n
  <2>1. Alike(told, told', n)
    BY <1>1 DEF Alike
  <2> QED BY <1>1, <1>2, <1>3, <2>1, QueuesOther
<1>4. CASE name = n
  <2>1. Raced(n) \subseteq excuse'[n]
    BY <1>1, <1>2, <1>4, DeletionAt DEF Before
  <2>2. ~ Waiting(n)
    BY <2>1, NotRaced DEF Asked
  <2>3. ~ Queued(n) /\ ~ Speaks(n)'
    BY <1>1, <2>2 DEF Waiting, Speaks
  <2>4. Wanted(n)'
    BY <1>1, <1>2, <1>4, <2>3, Queues
  <2> QED BY <1>1, <1>4, <2>3, <2>4 DEF Told, Speaks
<1> QED BY <1>3, <1>4

LEMMA AskedDelSource ==
  ASSUME Before, NEW n \in Name, Asked(n), DelSource
  PROVE  Wanted(n)' /\ Told(n)'
<1> DEFINE because == CASE api.id <= NFile -> {"table_freed"}
                        [] api.name \in VrsNames -> {"no_client"}
                        [] OTHER -> {}
           why == IF Queued(api.name) THEN {"raced"} ELSE {}
<1>1. /\ api # Idle /\ api.op = "del" /\ api' = Idle /\ api.id \in DOMAIN nameOf /\ nameOf[api.id] = api.name
      /\ api.name \in Name /\ ~ Speaks(n)'
      /\ told' = told \ {api.id} \/ (api.id \notin byname /\ told' = told)
      /\ QueueDeletion(api.name, because, why)
      /\ UNCHANGED <<nameOf, byname, boot, todo, srcs, addq>>
  BY SpokenOf DEF DelSource, Before, tables, threads, Speaks
<1>2. because \in SUBSET Cause /\ why \in SUBSET Reason
  BY DEF Cause, Reason
<1> HIDE DEF because
<1>3. CASE api.name # n
  <2>1. Alike(told, told', n)
    BY <1>1, <1>3 DEF Alike
  <2> HIDE DEF why
  <2> QED BY <1>1, <1>2, <1>3, <2>1, QueuesOther DEF Speaks
<1>4. CASE api.name = n
  <2>1. why \subseteq excuse'[n]
    BY <1>1, <1>2, <1>4, DeletionAt DEF Before
  <2>2. ~ Queued(n)
    BY <1>4, <2>1 DEF Asked, Calm
  <2> HIDE DEF why
  <2>3. Wanted(n)' /\ wanted'[n] = "deleted" /\ \A c \in Caster : Unstarted(c) = {}
    BY <1>1, <1>2, <1>4, <2>2, Queues
  <2>4. ToldOf(n)' = {}
    BY <2>3 DEF ToldOf
  <2>5. excuse'[n] = {} => excuse[n] = {}
    BY GrowStep DEF Grown, Before
  <2>6. ASSUME n \notin VrsNames, excuse[n] = {}
        PROVE  Named(told, n)' = {}
    <3>1. Named(told, n) = IF wanted[n] = "deleted" THEN {} ELSE Named(Alive, n)
      BY <1>1, <2>6 DEF Asked, Told, ToldOf
    <3>2. CASE wanted[n] = "deleted"
      BY <1>1, <3>1, <3>2 DEF Named
    <3>3. CASE wanted[n] # "deleted"
      <4>1. wanted[n] = "added"
        BY <3>3 DEF Before, TypeOK
      <4>2. api.id \in Named(Alive, n)
        BY <1>1, <1>4, <4>1 DEF Asked, Told, Named
      <4>3. \A i \in Named(Alive, n) : i = api.id
        BY <4>2, OneAlive DEF Before, Asked
      <4>4. api.id \in byname
        BY <2>2, <4>2, AliveRegistered DEF Before, Asked, Named
      <4> QED BY <1>1, <3>1, <3>3, <4>3, <4>4 DEF Named
    <3> QED BY <3>2, <3>3
  <2> QED BY <1>1, <2>3, <2>4, <2>5, <2>6 DEF Told, Speaks
<1> QED BY <1>3, <1>4

LEMMA RequestsStep ==
  ASSUME TypeOK, Casters, Commands, Places, Unique, Registered, FreedExcused, Requests,
         prog = "runs", Next
  PROVE  Requests'
<1> SUFFICES ASSUME phase' = "open", prog' = "runs", NEW n \in Name, Calm(n)'
             PROVE  Wanted(n)' /\ Told(n)'
  BY DEF Requests
<1>1. phase = "open" /\ ~ Close /\ ~ FreeNtrip /\ ~ \E c \in Caster : CloseCaster(c)
  BY DEF Next, CasterStep, StartCaster, Mark, Ready, StartSource, DoAdd, DoDel, CloseCaster, AddSource,
         AddUntold, FindSource, DelVsta, Tell, DelSource, Close, FreeNtrip
<1>2. Calm(n)
  BY GrowStep DEF Grown, Calm
<1>3. Before /\ Asked(n)
  BY <1>1, <1>2 DEF Before, Asked, Requests
<1> QED
  BY <1>1, <1>3, AskedBoot, AskedStart, AskedAdd, AskedDel, AskedAddSource, AskedAddUntold, AskedFind,
     AskedTell, AskedDelVsta, AskedDelSource
  DEF Next, CasterStep

-----------------------------------------------------------------------------
(* At the start.                                                           *)

\* The casters have all of the file.
LEMMA EveryShare ==
  ASSUME NEW i \in 1 .. NFile
  PROVE  \E c \in 1 .. NCaster : i \in Share(c)
<1> DEFINE q == (i - 1) \div MaxSrcs
           r == (i - 1) % MaxSrcs
           t == (NFile + MaxSrcs - 1) % MaxSrcs
<1>1. NFile \in Nat \ {0} /\ MaxSrcs \in Nat \ {0} /\ NCaster \in Nat
  BY Sizes
<1>2. i - 1 \in Nat /\ i - 1 <= NFile - 1
  BY <1>1
<1>3. i - 1 = MaxSrcs * q + r /\ q \in Nat /\ r \in 0 .. MaxSrcs - 1
  BY ONLY <1>1, <1>2
<1>4. NFile + MaxSrcs - 1 = MaxSrcs * NCaster + t /\ t \in 0 .. MaxSrcs - 1
  <2>1. NFile + MaxSrcs - 1 \in Nat
    BY <1>1
  <2>2. /\ NFile + MaxSrcs - 1 = MaxSrcs * ((NFile + MaxSrcs - 1) \div MaxSrcs) + t
        /\ t \in 0 .. MaxSrcs - 1
    BY ONLY <1>1, <2>1
  <2> QED BY <2>2 DEF NCaster
<1> HIDE DEF q, r, t
<1>5. MaxSrcs * q <= NFile - 1
  BY ONLY <1>1, <1>2, <1>3
<1>6. MaxSrcs * q + MaxSrcs < MaxSrcs * NCaster + MaxSrcs
  BY ONLY <1>1, <1>3, <1>4, <1>5
<1>7. q < NCaster
  <2>1. CASE q >= NCaster
    <3>1. MaxSrcs * q >= MaxSrcs * NCaster
      BY ONLY <1>1, <1>3, <2>1
    <3>2. MaxSrcs * q \in Nat /\ MaxSrcs * NCaster \in Nat
      BY ONLY <1>1, <1>3
    <3> QED BY ONLY <1>1, <1>6, <3>1, <3>2
  <2> QED BY ONLY <1>1, <1>3, <2>1
<1>8. q + 1 \in 1 .. NCaster /\ (q + 1) - 1 = q
  BY ONLY <1>1, <1>3, <1>7
<1>9. i \in Share(q + 1)
  BY <1>8 DEF Share, q
<1> QED BY <1>8, <1>9

LEMMA InitHomes ==
  ASSUME Init
  PROVE  /\ \A c \in Caster : /\ srcs[c] = {} /\ todo[c] = {} /\ addq[c] = <<>> /\ delq[c] = <<>> /\ boot[c] = "none"
                              /\ Coming(c) = Unstarted(c) /\ Home(c) = Unstarted(c)
                              /\ Unstarted(c) \subseteq Share(c)
         /\ Alive = 1 .. NFile /\ DOMAIN nameOf = 1 .. NFile
         /\ \A i \in 1 .. NFile : nameOf[i] \in FileNames
         /\ \A i, j \in 1 .. NFile : nameOf[i] = nameOf[j] => i = j
         /\ \A name \in FileNames : \E i \in 1 .. NFile : nameOf[i] = name
<1>1. PICK f \in [1 .. NFile -> FileNames] :
        nameOf = f /\ \A i, j \in 1 .. NFile : f[i] = f[j] => i = j
  BY DEF Init
<1>2. ASSUME NEW c \in Caster
      PROVE  /\ srcs[c] = {} /\ todo[c] = {} /\ addq[c] = <<>> /\ delq[c] = <<>> /\ boot[c] = "none"
             /\ Coming(c) = Unstarted(c) /\ Home(c) = Unstarted(c) /\ Unstarted(c) \subseteq Share(c)
  <2>1. srcs[c] = {} /\ todo[c] = {} /\ addq[c] = <<>> /\ delq[c] = <<>> /\ boot[c] = "none"
    BY DEF Init
  <2>2. ElementsOf(addq[c]) = {}
    BY <2>1, ElementsEmpty
  <2> QED BY <2>1, <2>2 DEF Home, Coming, Unstarted
<1>3. Alive = 1 .. NFile
  <2>1. Alive \subseteq 1 .. NFile
    BY <1>2, Shares DEF Alive
  <2>2. ASSUME NEW i \in 1 .. NFile
        PROVE  i \in Alive
    <3>1. PICK c \in 1 .. NCaster : i \in Share(c)
      BY EveryShare
    <3>2. c \in Caster /\ c <= NCaster
      BY CasterNumbers
    <3>3. i \in Home(c)
      BY <1>2, <3>1, <3>2 DEF Unstarted
    <3> QED BY <3>2, <3>3 DEF Alive
  <2> QED BY <2>1, <2>2
<1>4. \A name \in FileNames : \E i \in 1 .. NFile : f[i] = name
  <2>1. f \in Injection(1 .. NFile, FileNames)
    BY <1>1 DEF Injection, IsInjective
  <2>2. IsFiniteSet(FileNames)
    BY CasterAssumption DEF CasterAssumption
  <2>3. Cardinality(1 .. NFile) = NFile
    <3>1. 1 \in Int /\ NFile \in Int /\ ~ (1 > NFile) /\ NFile - 1 + 1 = NFile
      BY Sizes
    <3> QED BY <3>1, FS_Interval
  <2>4. f \in Surjection(1 .. NFile, FileNames)
    BY <2>1, <2>2, <2>3, FS_Injection DEF NFile
  <2> QED BY <2>4 DEF Surjection
<1> QED BY <1>1, <1>2, <1>3, <1>4

LEMMA InitCaster == Init => CasterInv
<1> SUFFICES ASSUME Init PROVE CasterInv
  OBVIOUS
<1>1. /\ \A c \in Caster : /\ srcs[c] = {} /\ todo[c] = {} /\ addq[c] = <<>> /\ delq[c] = <<>> /\ boot[c] = "none"
                           /\ Coming(c) = Unstarted(c) /\ Home(c) = Unstarted(c)
                           /\ Unstarted(c) \subseteq Share(c)
      /\ Alive = 1 .. NFile /\ DOMAIN nameOf = 1 .. NFile
      /\ \A i \in 1 .. NFile : nameOf[i] \in FileNames
      /\ \A i, j \in 1 .. NFile : nameOf[i] = nameOf[j] => i = j
      /\ \A name \in FileNames : \E i \in 1 .. NFile : nameOf[i] = name
  BY InitHomes
<1>2. /\ byname = 1 .. NFile /\ byid = 1 .. NFile /\ freed = {} /\ tbl = <<>> /\ api = Idle
      /\ told = 1 .. NFile /\ cause = {} /\ phase = "open" /\ prog = "runs"
      /\ wanted = [m \in Name |-> IF m \in FileNames THEN "added" ELSE "deleted"]
  BY DEF Init
<1>3. /\ NFile \in Nat /\ \A i \in 1 .. NFile : i <= NFile /\ ~ (i > NFile)
      /\ ElementsOf(<<>>) = {} /\ DOMAIN tbl = {}
  BY <1>2, Sizes, ElementsEmpty
<1>4. Casters
  BY <1>1, <1>2, <1>3 DEF Casters
<1>5. Commands
  BY <1>2 DEF Commands
<1>6. Files
  <2>1. \A c \in Caster : ElementsOf(addq[c]) = {} /\ ElementsOf(delq[c]) = {} /\ todo[c] = {}
    BY <1>1, <1>3
  <2> QED BY <1>1, <1>2, <2>1 DEF Files
<1>7. Places
  <2>1. \A c \in Caster : \A i \in Home(c) : i \in Share(c) /\ ~ (i > NFile)
    BY <1>1, <1>3, Shares
  <2>2. \A c \in Caster : Apart(c)
    BY <1>1 DEF Apart, Distinct
  <2> QED BY <2>1, <2>2 DEF Places
<1>8. Unique
  BY <1>1 DEF Unique
<1>9. Registered
  BY <1>1, <1>2, Shares DEF Registered
<1>10. FreedExcused /\ TablesAgree /\ CrashExcused
  BY <1>2 DEF FreedExcused, TablesAgree, CrashExcused
<1>11. Capacity
  <2>1. Cardinality({}) = 0 /\ Len(<<>>) = 0 /\ 0 + 0 + 0 <= MaxSrcs
    BY FS_EmptySet, Sizes
  <2> QED BY <1>1, <2>1 DEF Capacity
<1>12. ASSUME NEW name \in Name
       PROVE  Wanted(name) /\ Told(name)
  <2>1. Named(byname, name) = Named(Alive, name) /\ Named(told, name) = Named(Alive, name)
    BY <1>1, <1>2 DEF Named
  <2>2. CASE name \in FileNames
    <3>1. wanted[name] = "added" /\ wanted[name] # "deleted"
      BY <1>2, <2>2
    <3>2. Named(Alive, name) # {}
      BY <1>1, <2>2 DEF Named
    <3>3. \A c \in Caster : name \notin ElementsOf(delq[c])
      BY <1>1, <1>3
    <3>4. Wanted(name)
      BY <2>1, <3>1, <3>2, <3>3 DEF Wanted, Named
    <3>5. ToldOf(name) = Named(Alive, name)
      BY <1>2, <3>1 DEF ToldOf, Idle
    <3> QED BY <1>2, <2>1, <3>4, <3>5 DEF Told
  <2>3. CASE name \notin FileNames
    <3>1. wanted[name] = "deleted" /\ wanted[name] # "added"
      BY <1>2, <2>3
    <3>2. Named(Alive, name) = {}
      BY <1>1, <2>3 DEF Named
    <3>3. \A c \in Caster : Named(Coming(c), name) = {} /\ Named(srcs[c], name) = {}
      BY <3>2 DEF Named, Alive, Home
    <3>4. Wanted(name)
      BY <2>1, <3>1, <3>2, <3>3 DEF Wanted, Named
    <3>5. ToldOf(name) = {}
      BY <3>1 DEF ToldOf
    <3> QED BY <1>2, <2>1, <3>2, <3>4, <3>5 DEF Told
  <2> QED BY <2>2, <2>3
<1>13. Requests
  BY <1>12 DEF Requests
<1> QED
  BY <1>4, <1>5, <1>6, <1>7, <1>8, <1>9, <1>10, <1>11, <1>13, InitTypes DEF CasterInv

-----------------------------------------------------------------------------
(* The theorems.                                                           *)

\* The invariant: each source is in one place, registered and alone of its name but
\* for requests that raced, and a name is as it was asked for or a caster has the task
\* that makes it so.
THEOREM CasterInductive == Spec => []CasterInv
<1>1. ASSUME CasterInv, prog = "runs", Next
      PROVE  CasterInv'
  <2>1. /\ TypeOK /\ Casters /\ Commands /\ Files /\ Places /\ Unique /\ Registered
        /\ FreedExcused /\ Capacity /\ Requests /\ TablesAgree /\ CrashExcused
    BY <1>1 DEF CasterInv
  <2>2. TypeOK' /\ Casters' /\ Commands' /\ Files'
    BY <1>1, <2>1, TypesStep, CastersStep, CommandsStep, FilesStep
  <2>3. Places' /\ Unique' /\ Registered' /\ FreedExcused'
    BY <1>1, <2>1, PlacesStep, UniqueStep, RegisteredStep, FreedStep
  <2>4. Capacity' /\ Requests' /\ TablesAgree' /\ CrashExcused'
    BY <1>1, <2>1, CapacityStep, RequestsStep, TablesStep, CrashStep
  <2> QED BY <2>2, <2>3, <2>4 DEF CasterInv
<1>2. CasterInv /\ UNCHANGED vars => CasterInv'
  <2> USE DEF vars, tables, threads, queues, history
  <2>1. TypeOK /\ UNCHANGED vars => TypeOK'
    BY DEF TypeOK
  <2>2. Casters /\ Commands /\ UNCHANGED vars => Casters' /\ Commands'
    BY DEF Casters, Commands
  <2>3. Files /\ TablesAgree /\ CrashExcused /\ Capacity /\ FreedExcused /\ UNCHANGED vars
        => Files' /\ TablesAgree' /\ CrashExcused' /\ Capacity' /\ FreedExcused'
    BY DEF Files, TablesAgree, CrashExcused, Capacity, FreedExcused
  <2>4. UNCHANGED vars => \A c \in Caster : Home(c)' = Home(c) /\ Coming(c)' = Coming(c) /\ Unstarted(c)' = Unstarted(c)
    BY DEF Home, Coming, Unstarted
  <2>5. UNCHANGED vars => Alive' = Alive
    BY <2>4 DEF Alive
  <2>6. Places /\ Unique /\ Registered /\ UNCHANGED vars => Places' /\ Unique' /\ Registered'
    BY <2>4, <2>5 DEF Places, Apart, Unique, Registered
  <2>7. UNCHANGED vars => \A n \in Name : (Calm(n)' <=> Calm(n)) /\ ToldOf(n)' = ToldOf(n)
    BY <2>5 DEF Calm, ToldOf, Named
  <2>8. UNCHANGED vars => \A n \in Name : (Wanted(n)' <=> Wanted(n)) /\ (Told(n)' <=> Told(n))
    BY <2>4, <2>5, <2>7 DEF Wanted, Told, Named
  <2>9. Requests /\ UNCHANGED vars => Requests'
    BY <2>7, <2>8 DEF Requests
  <2> QED BY <2>1, <2>2, <2>3, <2>6, <2>9 DEF CasterInv
<1>3. CasterInv /\ [prog = "runs" /\ Next]_vars => CasterInv'
  BY <1>1, <1>2
<1>4. Next => prog = "runs"
  BY DEF Next
<1>5. CasterInv /\ [Next]_vars => CasterInv'
  BY <1>3, <1>4
<1> QED BY <1>5, InitCaster, PTL DEF Spec

\* What a caster runs can be found by its name and runs once, unless a request came
\* while another of the name was under way, and no caster has more than its size,
\* unless it was given sources faster than it came to them (ntrip.c, ntripcaster.c).
THEOREM SourcesAreSound == Spec => []SourcesSound
<1>1. ASSUME CasterInv
      PROVE  SourcesSound
  <2>1. TypeOK /\ Registered /\ Unique /\ Capacity
    BY <1>1 DEF CasterInv
  <2>2. ClientsRegistered
    BY <2>1 DEF ClientsRegistered, Registered, Clients
  <2>3. OneClientEach
    <3>1. Clients \subseteq Alive
      BY DEF Clients, Alive, Home
    <3> QED BY <2>1, <3>1 DEF OneClientEach, Unique
  <2>4. WithinCapacity
    <3>1. ASSUME NEW c \in Caster, "burst" \notin cause, Cardinality(srcs[c]) > MaxSrcs
          PROVE  FALSE
      <4>1. Cardinality(srcs[c]) + Cardinality(todo[c]) + Len(addq[c]) <= MaxSrcs
        BY <2>1, <3>1 DEF Capacity
      <4>2. Cardinality(srcs[c]) \in Nat /\ Cardinality(todo[c]) \in Nat /\ Len(addq[c]) \in Nat
            /\ MaxSrcs \in Nat
        BY <2>1, Finite, Sizes
      <4> QED BY ONLY <3>1, <4>1, <4>2
    <3> QED BY <3>1 DEF WithinCapacity
  <2> QED BY <2>1, <2>2, <2>3, <2>4 DEF SourcesSound
<1> QED BY <1>1, CasterInductive, PTL

\* Both tables of the registry hold the same sources until a source of the file is
\* deleted (ntripcaster.c, del_source_info).
THEOREM TablesHoldTheSame == Spec => []TablesAgree
<1>1. CasterInv => TablesAgree
  BY DEF CasterInv
<1> QED BY <1>1, CasterInductive, PTL

\* The registry and the casters end the program for the known reasons only.
THEOREM CrashesAreExcused == Spec => []CrashExcused
<1>1. CasterInv => CrashExcused
  BY DEF CasterInv
<1> QED BY <1>1, CasterInductive, PTL

\* Once nothing is under way for a name its client runs if and only if it was added
\* last, and the network knows just that client (ntrip.c, cors.c, engine.c).
THEOREM RequestsAreSettled == Spec => []Settled
<1>1. ASSUME CasterInv
      PROVE  Settled
  <2> SUFFICES ASSUME phase = "open", prog = "runs", \A c \in 1 .. NCaster : boot[c] # "none",
                      NEW name \in Name, ~ Waiting(name), excuse[name] \ {"untold"} = {}
               PROVE  /\ wanted[name] = "added" <=> Named(Clients, name) # {}
                      /\ name \notin VrsNames /\ excuse[name] = {} =>
                           Named(told, name) = Named(Clients, name)
    BY DEF Settled
  <2>1. TypeOK /\ Requests
    BY <1>1 DEF CasterInv
  <2>2. Calm(name)
    BY DEF Calm
  <2>3. Wanted(name) /\ Told(name)
    BY <2>1, <2>2 DEF Requests
  <2>4. \A c \in Caster : Unstarted(c) = {}
    BY CasterNumbers DEF Unstarted
  <2>5. Named(Alive, name) = Named(Clients, name)
    <3>1. \A c \in Caster : Named(Coming(c), name) = {}
      BY <2>4 DEF Waiting, Queued, Named, Coming
    <3>2. \A c \in Caster : Named(Home(c), name) = Named(srcs[c], name)
      BY <3>1 DEF Home, Named
    <3> QED BY <3>2 DEF Alive, Clients, Named
  <2>6. wanted[name] = "added" => Named(Clients, name) # {}
    BY <2>3, <2>5 DEF Wanted
  <2>7. wanted[name] = "deleted" => Named(Clients, name) = {}
    <3>1. ASSUME wanted[name] = "deleted", NEW c \in Caster
          PROVE  Named(srcs[c], name) = {}
      <4>1. name \notin ElementsOf(delq[c])
        BY DEF Waiting, Queued
      <4> QED BY <2>3, <3>1, <4>1 DEF Wanted
    <3> QED BY <3>1 DEF Clients, Named
  <2>8. wanted[name] \in {"added", "deleted"}
    BY <2>1 DEF TypeOK
  <2>9. api.op = "tell" => api # Idle
    BY DEF Idle
  <2>10. ToldOf(name) = Named(Clients, name)
    BY <2>5, <2>7, <2>8, <2>9 DEF ToldOf, Waiting
  <2> QED BY <2>3, <2>6, <2>7, <2>8, <2>10 DEF Told
<1> QED BY <1>1, CasterInductive, PTL
=============================================================================
