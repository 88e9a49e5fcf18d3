--------------------------- MODULE AuthoringProofs ---------------------------
(***************************************************************************)
(* Proofs about Authoring, for any number of processes, artifacts, schemas *)
(* and faults.  First the journal: it stays one chain, what runs continues *)
(* it, and what is recorded was written, whatever the planner and the      *)
(* compiler produce.  Then the programs: every operation of a plan is in   *)
(* one phase, after what it depends on, and the snapshot an artifact is    *)
(* sealed with numbers no two columns of a table alike.  Last what the     *)
(* programs do to the database: a column is lost only to the phase that    *)
(* removes it.                                                             *)
(***************************************************************************)
EXTENDS Authoring, FiniteSetTheorems, WellFoundedInduction, TLAPS

-----------------------------------------------------------------------------
(* Chains over a list of artifacts.                                         *)

AfterIn(s, d) == IF d = 0 THEN {} ELSE s[d].after

Before(chain, i) == IF i = 1 THEN 0 ELSE chain[i - 1]

\* Every member of chain follows the one before it.
Fits(s, chain) ==
  \A i \in 1 .. Len(chain) :
    LET d == s[chain[i]] IN
    /\ chain[i] \in DOMAIN s
    /\ d.seq = i - 1 /\ d.parent = Before(chain, i)
    /\ d.format = "executable" /\ i > 1 => d.before = AfterIn(s, Before(chain, i))

\* Only the first record is a baseline.
OneBaseline(s, chain) == \A i \in 1 .. Len(chain) : s[chain[i]].format = "baseline" => i = 1

\* Artifact d may be recorded next on chain.
Follows(s, chain, d) ==
  /\ d \in DOMAIN s
  /\ s[d].seq = Len(chain) /\ s[d].parent = Before(chain, Len(chain) + 1)
  /\ s[d].format = "executable"
  /\ Len(chain) > 0 => s[d].before = AfterIn(s, chain[Len(chain)])

Extends(s, t) == DOMAIN s \subseteq DOMAIN t /\ \A d \in DOMAIN s : t[d] = s[d]

IsList(s) == \E S : s \in Seq(S)

\* A list of artifacts is numbered from one.
LEMMA ListDomain ==
  ASSUME NEW s, IsList(s)
  PROVE  /\ Len(s) \in Nat /\ DOMAIN s = 1 .. Len(s)
         /\ DOMAIN s \subseteq Nat /\ 0 \notin DOMAIN s
BY DEF IsList

\* Sealing keeps every artifact and numbers the new one next.
LEMMA Sealing ==
  ASSUME NEW s, IsList(s), NEW x
  PROVE  LET t == Append(s, x) IN
         /\ IsList(t) /\ Extends(s, t)
         /\ DOMAIN t = DOMAIN s \cup {Len(s) + 1}
         /\ Len(s) + 1 \notin DOMAIN s /\ Len(s) + 1 \in Nat
         /\ t[Len(s) + 1] = x
<1>1. PICK S : s \in Seq(S)
  BY DEF IsList
<1>2. s \in Seq(S \cup {x}) /\ x \in S \cup {x}
  BY <1>1
<1>3. Append(s, x) \in Seq(S \cup {x})
  BY <1>2
<1> QED
  BY <1>2, <1>3 DEF IsList, Extends

\* A chain stays one when artifacts are sealed.
LEMMA FitsKept ==
  ASSUME NEW s, NEW t, IsList(s), Extends(s, t), NEW chain \in Seq(Nat), Fits(s, chain)
  PROVE  Fits(t, chain)
<1> SUFFICES ASSUME NEW i \in 1 .. Len(chain)
             PROVE  LET d == t[chain[i]] IN
                    /\ chain[i] \in DOMAIN t
                    /\ d.seq = i - 1 /\ d.parent = Before(chain, i)
                    /\ d.format = "executable" /\ i > 1 => d.before = AfterIn(t, Before(chain, i))
  BY DEF Fits
<1>1. chain[i] \in DOMAIN t /\ t[chain[i]] = s[chain[i]]
  BY DEF Fits, Extends
<1>2. ASSUME i > 1 PROVE AfterIn(t, Before(chain, i)) = AfterIn(s, Before(chain, i))
  <2>1. i - 1 \in 1 .. Len(chain)
    BY <1>2
  <2>2. chain[i - 1] \in DOMAIN s
    BY <2>1 DEF Fits
  <2> QED
    BY <1>2, <2>2 DEF Extends, AfterIn, Before
<1> QED
  BY <1>1, <1>2 DEF Fits

\* What may follow a chain still may when artifacts are sealed.
LEMMA FollowsKept ==
  ASSUME NEW s, NEW t, IsList(s), Extends(s, t), NEW chain \in Seq(Nat), Fits(s, chain),
         NEW d, Follows(s, chain, d)
  PROVE  Follows(t, chain, d)
<1>1. d \in DOMAIN t /\ t[d] = s[d]
  BY DEF Follows, Extends
<1>2. ASSUME Len(chain) > 0
      PROVE  AfterIn(t, chain[Len(chain)]) = AfterIn(s, chain[Len(chain)])
  <2>1. chain[Len(chain)] \in DOMAIN s
    BY <1>2 DEF Fits
  <2> QED
    BY <2>1 DEF Extends, AfterIn
<1> QED
  BY <1>1, <1>2 DEF Follows

\* Recording what follows a chain makes a chain.
LEMMA AppendFits ==
  ASSUME NEW s, NEW chain \in Seq(Nat), NEW d \in Nat,
         Fits(s, chain), OneBaseline(s, chain), Follows(s, chain, d)
  PROVE  LET longer == Append(chain, d) IN
         longer \in Seq(Nat) /\ Fits(s, longer) /\ OneBaseline(s, longer)
<1> DEFINE longer == Append(chain, d)
<1> USE DEF Before
<1>1. /\ longer \in Seq(Nat) /\ Len(longer) = Len(chain) + 1
      /\ \A i \in 1 .. Len(chain) : longer[i] = chain[i]
      /\ longer[Len(chain) + 1] = d
  OBVIOUS
<1>2. ASSUME NEW i \in 1 .. Len(longer)
      PROVE  /\ longer[i] \in DOMAIN s
             /\ s[longer[i]].seq = i - 1 /\ s[longer[i]].parent = Before(longer, i)
             /\ s[longer[i]].format = "executable" /\ i > 1 =>
                  s[longer[i]].before = AfterIn(s, Before(longer, i))
             /\ s[longer[i]].format = "baseline" => i = 1
  <2>1. CASE i \in 1 .. Len(chain)
    <3>1. Before(longer, i) = Before(chain, i)
      BY <2>1, <1>1
    <3> QED
      BY <2>1, <3>1, <1>1 DEF Fits, OneBaseline
  <2>2. CASE i = Len(chain) + 1
    <3>1. Before(longer, i) = Before(chain, i) /\ (i > 1 => Before(chain, i) = chain[Len(chain)])
      BY <2>2, <1>1
    <3> QED
      BY <2>2, <3>1, <1>1 DEF Follows
  <2> QED
    BY <2>1, <2>2, <1>1
<1> QED
  BY <1>1, <1>2 DEF Fits, OneBaseline

\* The next of a chain that begins with the journal may be recorded next, and
\* the chain begins with the longer journal as well.
LEMMA NextFollows ==
  ASSUME NEW s, NEW h \in Seq(Nat), NEW own \in Seq(Nat), Fits(s, own),
         Len(h) < Len(own), SubSeq(own, 1, Len(h)) = h,
         s[own[Len(h) + 1]].format = "executable"
  PROVE  /\ own[Len(h) + 1] \in Nat
         /\ Follows(s, h, own[Len(h) + 1])
         /\ SubSeq(own, 1, Len(h) + 1) = Append(h, own[Len(h) + 1])
<1> DEFINE n == Len(h) + 1
<1>0. n \in 1 .. Len(own) /\ Len(h) \in Nat /\ Len(own) \in Nat
  OBVIOUS
<1>1. \A i \in 1 .. Len(h) : h[i] = own[i]
  BY <1>0
<1>2. Before(own, n) = Before(h, n)
  BY <1>0, <1>1 DEF Before
<1>3. n > 1 => Before(own, n) = h[Len(h)]
  BY <1>0, <1>1 DEF Before
<1>4. Follows(s, h, own[n])
  BY <1>0, <1>2, <1>3 DEF Fits, Follows
<1>5. SubSeq(own, 1, n) = Append(h, own[n])
  <2>1. SubSeq(own, 1, n) \in Seq(Nat) /\ Append(h, own[n]) \in Seq(Nat)
    BY <1>0
  <2>2. Len(SubSeq(own, 1, n)) = n /\ Len(Append(h, own[n])) = n
    BY <1>0
  <2>3. \A i \in 1 .. n : SubSeq(own, 1, n)[i] = Append(h, own[n])[i]
    BY <1>0, <1>1
  <2> QED
    BY <2>1, <2>2, <2>3
<1> QED
  BY <1>0, <1>4, <1>5

-----------------------------------------------------------------------------
(* The inductive invariant.                                                 *)

\* The directory holds artifacts that were sealed, each of them once.
Directory ==
  /\ IsList(sealed)
  /\ IsFiniteSet(files)
  /\ files \cup removed \subseteq DOMAIN sealed
  /\ files \cap removed = {}

Shape(r) ==
  {"at", "own", "draft"} \subseteq DOMAIN r /\ r.own \in Seq(Nat) /\ r.draft \in Nat

Shaped ==
  /\ process = [p \in Process |-> process[p]]
  /\ \A p \in Process : Shape(process[p])

\* What a create or a baseline still has to write is nobody else's.
Drafts ==
  \A p \in Process : Is(p, "write") =>
    /\ process[p].draft \in DOMAIN sealed /\ ~Written(process[p].draft)
    /\ \A q \in Process : Is(q, "write") /\ process[q].draft = process[p].draft => q = p

Backed(chain) == \A i \in 1 .. Len(chain) : Written(chain[i])

Bootstraps(d) == sealed[d].id = "schema-bootstrap"

Copied(p) == process[p].at \in {"lease", "next", "phase"}

\* A copy of the chain is linked, and comes from files or from a bootstrap.
Copies ==
  \A p \in Process : Copied(p) =>
    /\ Fits(sealed, process[p].own)
    /\ \/ Backed(process[p].own)
       \/ Len(process[p].own) = 1 /\ Bootstraps(process[p].own[1])

Journal ==
  /\ applied \in Seq(Nat) /\ Fits(sealed, applied) /\ OneBaseline(sealed, applied)
  /\ RecordsHaveFiles

\* The open attempt may be recorded next.
Attempts ==
  /\ attempt \in [digest : Nat, done : Nat]
  /\ Open => /\ tried /\ Follows(sealed, applied, attempt.digest)
             /\ Backed(applied)
             /\ Written(attempt.digest) \/ (applied = << >> /\ Bootstraps(attempt.digest))

Holds(p) == process[p].at \in {"next", "phase"}

\* A run continues the journal with executable artifacts.
Continues(p) ==
  /\ Prefix(process[p].own)
  /\ \A i \in (Len(applied) + 1) .. Len(process[p].own) :
       sealed[process[p].own[i]].format = "executable"
  /\ Open <=> Is(p, "phase")
  /\ Is(p, "phase") =>
       Len(applied) < Len(process[p].own) /\ attempt.digest = process[p].own[Len(applied) + 1]

Runs ==
  \A p \in Process :
    /\ Holds(p) <=> lease = p
    /\ Holds(p) => Continues(p)

Leased == lease \in Process \cup {NoOne}

IInv ==
  /\ Directory /\ Shaped /\ Drafts /\ Copies /\ Journal /\ Attempts /\ Runs /\ Leased

-----------------------------------------------------------------------------
(* What the steps have in common.                                           *)

\* A step of one process leaves the others where they are.
LEMMA Setting ==
  ASSUME Shaped, NEW p \in Process, NEW r, Shape(r), Set(p, r)
  PROVE  /\ Shaped' /\ process'[p] = r
         /\ \A q \in Process : q # p => process'[q] = process[q]
BY DEF Shaped, Set

\* A process that goes on keeps what it has.
LEMMA GoingOn ==
  ASSUME NEW r, Shape(r), NEW a
  PROVE  LET t == [r EXCEPT !.at = a] IN
         Shape(t) /\ t.at = a /\ t.own = r.own /\ t.draft = r.draft
BY DEF Shape

\* The states a process is put into.
LEMMA FreshIdle == Shape(Idle) /\ Idle.at = "idle"
BY DEF Shape, Idle

\* A process that is to write a file.
LEMMA FreshWrite ==
  ASSUME NEW d \in Nat
  PROVE  LET w == [Idle EXCEPT !.at = "write", !.draft = d] IN
         Shape(w) /\ w.at = "write" /\ w.draft = d
BY DEF Shape, Idle

\* A process that is to run a chain.
LEMMA FreshRun ==
  ASSUME NEW chain \in Seq(Nat)
  PROVE  LET w == [Idle EXCEPT !.at = "lease", !.own = chain] IN
         Shape(w) /\ w.at = "lease" /\ w.own = chain
BY DEF Shape, Idle

\* A process whose author reviews a candidate.
LEMMA FreshReview ==
  ASSUME NEW n, NEW c
  PROVE  LET w == [Idle EXCEPT !.at = "review", !.schema = n, !.candidate = c] IN
         Shape(w) /\ w.at = "review"
BY DEF Shape, Idle

\* Sealing an artifact disturbs nothing that is there.
LEMMA SealingKeeps ==
  ASSUME IInv, NEW x, Seal(x), UNCHANGED <<files, removed>>
  PROVE  /\ Directory'
         /\ Extends(sealed, sealed') /\ sealed'[Len(sealed) + 1] = x
         /\ Len(sealed) + 1 \in DOMAIN sealed' \ DOMAIN sealed /\ Len(sealed) + 1 \in Nat
         /\ Fits(sealed', applied) /\ OneBaseline(sealed', applied)
         /\ Open => Follows(sealed', applied, attempt.digest)
         /\ \A p \in Process : Copied(p) => Fits(sealed', process[p].own)
<1>1. /\ IsList(sealed') /\ Extends(sealed, sealed')
      /\ DOMAIN sealed' = DOMAIN sealed \cup {Len(sealed) + 1}
      /\ Len(sealed) + 1 \notin DOMAIN sealed /\ Len(sealed) + 1 \in Nat
      /\ sealed'[Len(sealed) + 1] = x
  BY Sealing DEF IInv, Directory, Seal
<1>2. Directory'
  BY <1>1 DEF IInv, Directory
<1>3. Fits(sealed', applied) /\ OneBaseline(sealed', applied)
  <2>1. Fits(sealed', applied)
    BY <1>1, FitsKept DEF IInv, Directory, Journal
  <2>2. \A i \in 1 .. Len(applied) : sealed'[applied[i]] = sealed[applied[i]]
    BY <1>1 DEF IInv, Journal, Fits, Extends
  <2> QED
    BY <2>1, <2>2 DEF IInv, Journal, OneBaseline
<1>4. Open => Follows(sealed', applied, attempt.digest)
  BY <1>1, FollowsKept DEF IInv, Directory, Journal, Attempts
<1>5. ASSUME NEW p \in Process, Copied(p) PROVE Fits(sealed', process[p].own)
  <2>1. process[p].own \in Seq(Nat)
    BY DEF IInv, Shaped, Shape
  <2> QED
    BY <2>1, <1>1, <1>5, FitsKept DEF IInv, Directory, Copies
<1> QED
  BY <1>1, <1>2, <1>3, <1>4, <1>5

\* Whoever may follow the journal is not 0, the digest of no attempt.
LEMMA OpenDigest ==
  ASSUME Directory, NEW d, Follows(sealed, applied, d)
  PROVE  d \in Nat /\ d # 0 /\ \A n : [digest |-> d, done |-> n] # NoAttempt
BY ListDomain DEF Directory, Follows, NoAttempt

\* A process that ends, and gives back the lease if it has it, disturbs
\* nothing, nor does rolling back its attempt.
LEMMA Ends ==
  ASSUME IInv, AuthoringAssumption, NEW p \in Process, NEW r, Shape(r), Set(p, r),
         r.at \notin {"write", "lease", "next", "phase"},
         lease' = IF lease = p THEN NoOne ELSE lease,
         UNCHANGED <<sealed, files, removed, applied, tried>>,
         attempt' = attempt \/ (attempt' = NoAttempt /\ lease = p)
  PROVE  IInv'
<1>1. /\ Shaped' /\ process'[p] = r
      /\ \A q \in Process : q # p => process'[q] = process[q]
  BY Setting DEF IInv
<1>2. Directory' /\ Leased'
  BY DEF IInv, Directory, Leased
<1>3. Drafts'
  BY <1>1 DEF IInv, Drafts, Is, Written
<1>4. Copies'
  BY <1>1 DEF IInv, Copies, Copied, Backed, Written, Bootstraps
<1>5. Journal'
  BY DEF IInv, Journal, RecordsHaveFiles, Written
<1>6. Attempts'
  <2>1. CASE attempt' = attempt
    BY <2>1 DEF IInv, Attempts, Open, Backed, Written, Bootstraps
  <2>2. CASE attempt' = NoAttempt
    BY <2>2 DEF Attempts, Open, NoAttempt
  <2> QED
    BY <2>1, <2>2
<1>7. Runs'
  <2> SUFFICES ASSUME NEW q \in Process
               PROVE  (Holds(q) <=> lease = q)' /\ (Holds(q) => Continues(q))'
    BY DEF Runs
  <2>1. CASE q = p
    BY <2>1, <1>1 DEF Holds, AuthoringAssumption
  <2>2. CASE q # p
    <3>1. Holds(q)' <=> Holds(q)
      BY <2>2, <1>1 DEF Holds
    <3>2. Holds(q) => lease = q
      BY DEF IInv, Runs
    <3>3. Holds(q)' => attempt' = attempt /\ process'[q] = process[q]
      BY <2>2, <3>1, <3>2, <1>1
    <3>4. (Holds(q) <=> lease = q)'
      BY <2>2, <3>1 DEF IInv, Runs, AuthoringAssumption
    <3>5. Holds(q)' => Continues(q)'
      BY <3>1, <3>3 DEF IInv, Runs, Continues, Prefix, Open, Is
    <3> QED
      BY <3>4, <3>5
  <2> QED
    BY <2>1, <2>2
<1> QED
  BY <1>1, <1>2, <1>3, <1>4, <1>5, <1>6, <1>7 DEF IInv

-----------------------------------------------------------------------------
(* The chain a directory holds.                                             *)

\* A directory that verifies is a chain, and all of it was written.
LEMMA Verified ==
  ASSUME Directory, ValidChain
  PROVE  /\ Chain \in Seq(Nat) /\ Fits(sealed, Chain) /\ Backed(Chain)
<1> DEFINE n == Cardinality(files)
<1>1. n \in Nat
  BY FS_CardinalityType DEF Directory
<1>2. files \subseteq DOMAIN sealed /\ DOMAIN sealed \subseteq Nat
  BY ListDomain DEF Directory
<1>3. ASSUME NEW i \in 1 .. n
      PROVE  Chain[i] \in files /\ sealed[Chain[i]].seq = i - 1
  <2>0. i - 1 \in 0 .. n - 1
    BY <1>1
  <2>1. i - 1 \in {sealed[d].seq : d \in files}
    BY ONLY <2>0, ValidChain DEF ValidChain, Contiguous
  <2>2. PICK d \in files : sealed[d].seq = i - 1
    BY <2>1
  <2>3. Chain[i] = CHOOSE e \in files : sealed[e].seq = i - 1
    BY DEF Chain
  <2> QED
    BY <2>2, <2>3
<1>4. Chain = [i \in 1 .. n |-> Chain[i]]
  BY DEF Chain
<1>5. Chain \in Seq(Nat) /\ Len(Chain) = n /\ DOMAIN Chain = 1 .. n
  <2>1. Chain \in [1 .. n -> Nat]
    BY <1>2, <1>3, <1>4
  <2> QED
    BY <2>1, <1>1
<1>6. Backed(Chain)
  BY <1>3, <1>5 DEF Backed, Written
<1>7. Fits(sealed, Chain)
  <2> SUFFICES ASSUME NEW i \in 1 .. n
               PROVE  LET d == sealed[Chain[i]] IN
                      /\ Chain[i] \in DOMAIN sealed
                      /\ d.seq = i - 1 /\ d.parent = Before(Chain, i)
                      /\ d.format = "executable" /\ i > 1 =>
                           d.before = AfterIn(sealed, Before(Chain, i))
    BY <1>5 DEF Fits
  <2>1. Linked(Chain)
    BY DEF ValidChain
  <2>2. /\ sealed[Chain[i]].parent = Before(Chain, i)
        /\ (i > 1 /\ sealed[Chain[i]].format = "executable") =>
             sealed[Chain[i]].before = AfterIn(sealed, Before(Chain, i))
    BY <2>1, <1>5 DEF Linked, Before, AfterOf, AfterIn
  <2> QED
    BY <2>2, <1>2, <1>3
<1> QED
  BY <1>5, <1>6, <1>7

-----------------------------------------------------------------------------
(* The steps of the commands, those that only end covered by Ends.          *)

\* What holds of a written file keeps holding when nothing is taken away.
LEMMA RunsElsewhere ==
  ASSUME IInv, NEW q \in Process, process'[q] = process[q],
         UNCHANGED <<applied, attempt>>, Extends(sealed, sealed')
  PROVE  /\ (Holds(q) <=> Holds(q)') /\ (Holds(q)' => Continues(q)')
         /\ (Copied(q) <=> Copied(q)')
<1>1. Holds(q) <=> Holds(q)'
  BY DEF Holds
<1>2. ASSUME Holds(q) PROVE Continues(q)'
  <2>1. Continues(q) /\ Fits(sealed, process[q].own)
    BY <1>2 DEF IInv, Runs, Copies, Copied, Holds
  <2>2. \A i \in (Len(applied) + 1) .. Len(process[q].own) :
          sealed'[process[q].own[i]].format = "executable"
    <3> SUFFICES ASSUME NEW i \in (Len(applied) + 1) .. Len(process[q].own)
                 PROVE  sealed'[process[q].own[i]].format = "executable"
      OBVIOUS
    <3>1. i \in 1 .. Len(process[q].own)
      BY DEF IInv, Journal, Shaped, Shape
    <3> QED
      BY <3>1, <2>1 DEF Continues, Fits, Extends
  <2> QED
    BY <2>1, <2>2 DEF Continues, Prefix, Open, Is
<1> QED
  BY <1>1, <1>2 DEF Copied

\* Copies, the journal and the attempt survive sealing.
LEMMA SealedIds ==
  ASSUME IInv, NEW x, Seal(x), UNCHANGED <<files, removed>>
  PROVE  /\ \A q \in Process : process'[q] = process[q] /\ Copied(q)' =>
              /\ Fits(sealed, process[q].own)'
              /\ \/ Backed(process[q].own)'
                 \/ (Len(process[q].own) = 1 /\ Bootstraps(process[q].own[1]))'
         /\ UNCHANGED <<applied, attempt, tried>> => Journal' /\ Attempts'
<1>1. /\ Directory' /\ Extends(sealed, sealed')
      /\ Fits(sealed', applied) /\ OneBaseline(sealed', applied)
      /\ Open => Follows(sealed', applied, attempt.digest)
      /\ \A q \in Process : Copied(q) => Fits(sealed', process[q].own)
  BY SealingKeeps
<1>2. ASSUME NEW q \in Process, process'[q] = process[q], Copied(q)'
      PROVE  /\ Fits(sealed, process[q].own)'
             /\ \/ Backed(process[q].own)'
                \/ (Len(process[q].own) = 1 /\ Bootstraps(process[q].own[1]))'
  <2>1. Copied(q)
    BY <1>2 DEF Copied
  <2>2. /\ Fits(sealed, process[q].own)
        /\ \/ Backed(process[q].own)
           \/ Len(process[q].own) = 1 /\ Bootstraps(process[q].own[1])
    BY <2>1 DEF IInv, Copies
  <2>3. Fits(sealed', process'[q].own)
    BY <1>1, <1>2, <2>1
  <2>4. CASE Backed(process[q].own)
    BY <1>2, <2>3, <2>4 DEF Backed, Written
  <2>5. CASE Len(process[q].own) = 1 /\ Bootstraps(process[q].own[1])
    <3>1. process[q].own[1] \in DOMAIN sealed
      BY <2>2, <2>5 DEF Fits
    <3> QED
      BY <1>1, <1>2, <2>3, <2>5, <3>1 DEF Bootstraps, Extends
  <2> QED
    BY <2>2, <2>4, <2>5
<1>3. ASSUME UNCHANGED <<applied, attempt, tried>> PROVE Journal'
  <2>1. \A i \in DOMAIN applied : sealed'[applied[i]] = sealed[applied[i]]
    BY <1>1 DEF IInv, Journal, Fits, Extends
  <2>2. RecordsHaveFiles'
    BY <1>3, <2>1 DEF IInv, Journal, RecordsHaveFiles, Written
  <2> QED
    BY <1>1, <1>3, <2>2 DEF IInv, Journal
<1>4. ASSUME UNCHANGED <<applied, attempt, tried>> PROVE Attempts'
  <2>1. Open => sealed'[attempt.digest] = sealed[attempt.digest]
    BY <1>1 DEF IInv, Attempts, Follows, Extends
  <2> QED
    BY <1>1, <1>4, <2>1 DEF IInv, Attempts, Open, Backed, Written, Bootstraps
<1> QED
  BY <1>2, <1>3, <1>4

\* create.
LEMMA CreateStep ==
  ASSUME IInv, NEW p \in Process, Create(p)
  PROVE  IInv'
<1> DEFINE d == Len(sealed) + 1
<1>1. PICK x : Seal(x)
  BY DEF Create
<1>2. UNCHANGED <<files, removed, live, applied, attempt, tried, lease, faults>>
  BY DEF Create
<1>3. /\ Directory' /\ Extends(sealed, sealed')
      /\ d \in DOMAIN sealed' /\ d \notin DOMAIN sealed /\ d \in Nat
      /\ Fits(sealed', applied) /\ OneBaseline(sealed', applied)
      /\ Open => Follows(sealed', applied, attempt.digest)
      /\ \A q \in Process : Copied(q) => Fits(sealed', process[q].own)
  BY <1>1, <1>2, SealingKeeps
<1>4. PICK r : r = [Idle EXCEPT !.at = "write", !.draft = d]
  OBVIOUS
<1>5. Shape(r) /\ r.at = "write" /\ r.draft = d
  BY <1>3, <1>4, FreshWrite
<1>6. Set(p, r)
  BY <1>4 DEF Create
<1>7. /\ Shaped' /\ process'[p] = r
      /\ \A q \in Process : q # p => process'[q] = process[q]
  BY <1>5, <1>6, Setting DEF IInv
<1>8. ~Holds(p) /\ ~Copied(p) /\ ~Holds(p)' /\ ~Copied(p)'
  BY <1>5, <1>7 DEF Create, Is, Holds, Copied
<1>9. Drafts'
  <2>1. d \notin files' \cup removed'
    BY <1>2, <1>3 DEF IInv, Directory
  <2>2. \A q \in Process : Is(q, "write") =>
          process[q].draft # d /\ process[q].draft \in DOMAIN sealed'
    BY <1>3 DEF IInv, Drafts, Extends
  <2> QED
    BY <1>2, <1>3, <1>5, <1>7, <2>1, <2>2 DEF IInv, Drafts, Is, Written
<1>10. Copies' /\ Journal' /\ Attempts'
  <2>1. /\ Journal' /\ Attempts'
        /\ \A q \in Process : process'[q] = process[q] /\ Copied(q)' =>
             /\ Fits(sealed, process[q].own)'
             /\ \/ Backed(process[q].own)'
                \/ (Len(process[q].own) = 1 /\ Bootstraps(process[q].own[1]))'
    BY <1>1, <1>2, SealedIds
  <2> QED
    BY <2>1, <1>7, <1>8 DEF Copies
<1>11. Runs' /\ Leased'
  BY <1>2, <1>3, <1>7, <1>8, RunsElsewhere DEF IInv, Runs, Leased
<1> QED
  BY <1>3, <1>7, <1>9, <1>10, <1>11 DEF IInv

\* A file more takes nothing from anybody.
LEMMA WrittenGrows ==
  ASSUME IInv, UNCHANGED <<sealed, applied, attempt, tried>>,
         files \cup removed \subseteq files' \cup removed'
  PROVE  /\ \A q \in Process : process'[q] = process[q] /\ Copied(q)' =>
              /\ Fits(sealed, process[q].own)'
              /\ \/ Backed(process[q].own)'
                 \/ (Len(process[q].own) = 1 /\ Bootstraps(process[q].own[1]))'
         /\ Journal' /\ Attempts'
<1>1. \A d : Written(d) => Written(d)'
  BY DEF Written
<1>2. ASSUME NEW q \in Process, process'[q] = process[q], Copied(q)'
      PROVE  /\ Fits(sealed, process[q].own)'
             /\ \/ Backed(process[q].own)'
                \/ (Len(process[q].own) = 1 /\ Bootstraps(process[q].own[1]))'
  <2>1. /\ Fits(sealed, process[q].own)
        /\ \/ Backed(process[q].own)
           \/ Len(process[q].own) = 1 /\ Bootstraps(process[q].own[1])
    BY <1>2 DEF IInv, Copies, Copied
  <2> QED
    BY <1>1, <1>2, <2>1 DEF Backed, Bootstraps
<1>3. Journal'
  BY <1>1 DEF IInv, Journal, RecordsHaveFiles
<1>4. Attempts'
  BY <1>1 DEF IInv, Attempts, Open, Backed, Bootstraps
<1> QED
  BY <1>2, <1>3, <1>4

\* The file of a create or a baseline.
LEMMA WriteFileStep ==
  ASSUME IInv, NEW p \in Process, WriteFile(p)
  PROVE  IInv'
<1>1. UNCHANGED <<sealed, removed, live, applied, attempt, tried, lease, faults>>
  BY DEF WriteFile
<1>2. /\ Shaped' /\ process'[p] = Idle /\ Idle.at = "idle"
      /\ \A q \in Process : q # p => process'[q] = process[q]
  BY FreshIdle, Setting DEF WriteFile, IInv
<1>3. ~Holds(p) /\ ~Copied(p) /\ ~Holds(p)' /\ ~Copied(p)'
  BY <1>2 DEF WriteFile, Is, Holds, Copied
<1>4. files' = files \/ files' = files \cup {process[p].draft}
  BY DEF WriteFile
<1>5. /\ process[p].draft \in DOMAIN sealed /\ process[p].draft \notin removed
      /\ \A q \in Process : q # p /\ Is(q, "write") => process[q].draft # process[p].draft
  BY DEF WriteFile, IInv, Drafts, Written
<1>6. Directory'
  BY <1>1, <1>4, <1>5, FS_AddElement DEF IInv, Directory
<1>7. Drafts'
  BY <1>1, <1>2, <1>4, <1>5 DEF IInv, Drafts, Is, Written
<1>8. Copies' /\ Journal' /\ Attempts'
  <2>1. /\ Journal' /\ Attempts'
        /\ \A q \in Process : process'[q] = process[q] /\ Copied(q)' =>
             /\ Fits(sealed, process[q].own)'
             /\ \/ Backed(process[q].own)'
                \/ (Len(process[q].own) = 1 /\ Bootstraps(process[q].own[1]))'
    BY <1>1, <1>4, WrittenGrows
  <2> QED
    BY <2>1, <1>2, <1>3 DEF Copies
<1>9. Runs' /\ Leased'
  BY <1>1, <1>2, <1>3, RunsElsewhere DEF IInv, Runs, Leased, Extends
<1> QED
  BY <1>2, <1>6, <1>7, <1>8, <1>9 DEF IInv

\* An operator takes a file away.
LEMMA RemoveFileStep ==
  ASSUME IInv, NEW d \in files, RemoveFile(d)
  PROVE  IInv'
<1>1. /\ UNCHANGED <<sealed, live, applied, attempt, tried, lease, process, faults>>
      /\ files' = files \ {d} /\ removed' = removed \cup {d}
  BY DEF RemoveFile
<1>2. Directory' /\ Shaped' /\ Leased'
  BY <1>1, FS_RemoveElement DEF IInv, Directory, Shaped, Leased
<1>3. Drafts'
  BY <1>1 DEF IInv, Drafts, Is, Written
<1>4. Copies' /\ Journal' /\ Attempts'
  BY <1>1, WrittenGrows DEF Copies
<1>5. Runs'
  BY <1>1, RunsElsewhere DEF IInv, Runs, Extends
<1> QED
  BY <1>2, <1>3, <1>4, <1>5 DEF IInv

\* apply reads the directory.
LEMMA ApplyStep ==
  ASSUME IInv, NEW p \in Process, Apply(p)
  PROVE  IInv'
<1>1. UNCHANGED <<sealed, files, removed, live, applied, attempt, tried, lease, faults>>
  BY DEF Apply
<1>2. Chain \in Seq(Nat) /\ Fits(sealed, Chain) /\ Backed(Chain)
  BY Verified DEF Apply, IInv
<1>3. PICK r : r = [Idle EXCEPT !.at = "lease", !.own = Chain]
  OBVIOUS
<1>4. Shape(r) /\ r.at = "lease" /\ r.own = Chain
  BY <1>2, <1>3, FreshRun
<1>5. /\ Shaped' /\ process'[p] = r
      /\ \A q \in Process : q # p => process'[q] = process[q]
  BY <1>3, <1>4, Setting DEF Apply, IInv
<1>6. Directory' /\ Leased' /\ Journal' /\ Attempts'
  BY <1>1 DEF IInv, Directory, Leased, Journal, Attempts, RecordsHaveFiles, Written, Open,
     Backed, Bootstraps
<1>7. Drafts'
  BY <1>1, <1>4, <1>5 DEF IInv, Drafts, Is, Written
<1>8. Copies'
  BY <1>1, <1>2, <1>4, <1>5 DEF IInv, Copies, Copied, Backed, Written, Bootstraps
<1>9. Runs'
  <2>1. ~Holds(p) /\ ~Holds(p)'
    BY <1>4, <1>5 DEF Apply, Is, Holds
  <2> QED
    BY <1>1, <1>5, <2>1, RunsElsewhere DEF IInv, Runs, Extends
<1> QED
  BY <1>5, <1>6, <1>7, <1>8, <1>9 DEF IInv

\* bootstrap seals an artifact of its own and runs it.
LEMMA BootstrapStep ==
  ASSUME IInv, NEW p \in Process, Bootstrap(p)
  PROVE  IInv'
<1> DEFINE d == Len(sealed) + 1
<1>1. PICK step, n : Seal(Executable("schema-bootstrap", 0, 0, step, {}, n))
  BY DEF Bootstrap
<1>2. UNCHANGED <<files, removed, live, applied, attempt, tried, lease, faults>>
  BY DEF Bootstrap
<1>3. /\ Directory' /\ Extends(sealed, sealed')
      /\ sealed'[d] = Executable("schema-bootstrap", 0, 0, step, {}, n)
      /\ d \in DOMAIN sealed' /\ d \notin DOMAIN sealed /\ d \in Nat
  BY <1>1, <1>2, SealingKeeps
<1>4. PICK r : r = [Idle EXCEPT !.at = "lease", !.own = <<d>>]
  OBVIOUS
<1>5. <<d>> \in Seq(Nat) /\ Len(<<d>>) = 1 /\ <<d>>[1] = d
  BY <1>3
<1>6. Shape(r) /\ r.at = "lease" /\ r.own = <<d>>
  BY <1>4, <1>5, FreshRun
<1>7. /\ Shaped' /\ process'[p] = r
      /\ \A q \in Process : q # p => process'[q] = process[q]
  BY <1>4, <1>6, Setting DEF Bootstrap, IInv
<1>8. /\ sealed'[d].seq = 0 /\ sealed'[d].parent = 0
      /\ sealed'[d].id = "schema-bootstrap"
  BY <1>3 DEF Executable
<1>9. Fits(sealed', <<d>>)
  BY <1>3, <1>5, <1>8 DEF Fits, Before
<1>10. Drafts'
  <2>1. \A q \in Process : Is(q, "write") => process[q].draft \in DOMAIN sealed'
    BY <1>3 DEF IInv, Drafts, Extends
  <2> QED
    BY <1>2, <1>6, <1>7, <2>1 DEF IInv, Drafts, Is, Written
<1>11. Copies' /\ Journal' /\ Attempts'
  <2>1. /\ Journal' /\ Attempts'
        /\ \A q \in Process : process'[q] = process[q] /\ Copied(q)' =>
             /\ Fits(sealed, process[q].own)'
             /\ \/ Backed(process[q].own)'
                \/ (Len(process[q].own) = 1 /\ Bootstraps(process[q].own[1]))'
    BY <1>1, <1>2, SealedIds
  <2>2. /\ Fits(sealed, process[p].own)'
        /\ (Len(process[p].own) = 1 /\ Bootstraps(process[p].own[1]))'
    BY <1>5, <1>6, <1>7, <1>8, <1>9 DEF Bootstraps
  <2> QED
    BY <2>1, <2>2, <1>7 DEF Copies
<1>12. Runs' /\ Leased'
  <2>1. ~Holds(p) /\ ~Holds(p)'
    BY <1>6, <1>7 DEF Bootstrap, Is, Holds
  <2> QED
    BY <1>2, <1>3, <1>7, <2>1, RunsElsewhere DEF IInv, Runs, Leased
<1> QED
  BY <1>3, <1>7, <1>10, <1>11, <1>12 DEF IInv

\* The lease, and the checks made under it.
LEMMA AcquireLeaseStep ==
  ASSUME IInv, AuthoringAssumption, NEW p \in Process, AcquireLease(p)
  PROVE  IInv'
<1>1. /\ UNCHANGED <<sealed, files, removed, live, applied, attempt, tried, faults>>
      /\ lease = NoOne /\ process[p].at = "lease"
  BY DEF AcquireLease, Is
<1>2. CASE ~CanRun(process[p].own)
  <2>1. UNCHANGED lease /\ Set(p, Idle)
    BY <1>2 DEF AcquireLease
  <2>2. lease # p
    BY <1>1 DEF AuthoringAssumption
  <2> QED
    BY <1>1, <2>1, <2>2, FreshIdle, Ends
<1>3. CASE CanRun(process[p].own)
  <2> DEFINE r == [process[p] EXCEPT !.at = "next"]
  <2>1. lease' = p /\ Set(p, r)
    BY <1>3 DEF AcquireLease
  <2>2. Shape(process[p])
    BY DEF IInv, Shaped
  <2>3. Shape(r) /\ r.at = "next" /\ r.own = process[p].own
    BY <2>2, GoingOn
  <2>4. /\ Shaped' /\ process'[p].at = "next" /\ process'[p].own = process[p].own
        /\ \A q \in Process : q # p => process'[q] = process[q]
    BY <2>1, <2>3, Setting DEF IInv
  <2>5. Directory' /\ Leased' /\ Journal' /\ Attempts'
    BY <1>1, <2>1 DEF IInv, Directory, Leased, Journal, Attempts, RecordsHaveFiles, Written,
       Open, Backed, Bootstraps
  <2>6. Drafts'
    BY <1>1, <2>4 DEF IInv, Drafts, Is, Written
  <2>7. Copies'
    BY <1>1, <2>4 DEF IInv, Copies, Copied, Backed, Written, Bootstraps
  <2>8. Runs'
    <3>1. Holds(p)' /\ Continues(p)'
      BY <1>1, <1>3, <2>4 DEF Holds, Continues, CanRun, Prefix, Is, Open
    <3>2. \A q \in Process : q # p => ~Holds(q) /\ ~Holds(q)'
      BY <1>1, <2>4 DEF IInv, Runs, Holds, AuthoringAssumption
    <3> QED
      BY <2>1, <3>1, <3>2 DEF Runs
  <2> QED
    BY <2>4, <2>5, <2>6, <2>7, <2>8 DEF IInv
<1> QED
  BY <1>2, <1>3

\* Recording an artifact that may follow keeps the journal a chain.
LEMMA Recording ==
  ASSUME Directory, Journal, NEW d, Follows(sealed, applied, d), Backed(applied),
         Written(d) \/ (applied = << >> /\ Bootstraps(d)),
         applied' = Append(applied, d), UNCHANGED <<sealed, files, removed>>
  PROVE  Journal'
<1>1. d \in Nat
  BY OpenDigest
<1>2. applied' \in Seq(Nat) /\ Fits(sealed, applied') /\ OneBaseline(sealed, applied')
  BY <1>1, AppendFits DEF Journal
<1>3. RecordsHaveFiles'
  <2> SUFFICES ASSUME NEW i \in DOMAIN applied'
               PROVE  \/ Written(applied'[i])
                      \/ i = Len(applied') /\ i = 1 /\ sealed[applied'[i]].id = "schema-bootstrap"
    BY DEF RecordsHaveFiles, Written
  <2>1. i \in 1 .. Len(applied) + 1 /\ Len(applied') = Len(applied) + 1
    BY <1>1 DEF Journal
  <2>2. CASE i \in 1 .. Len(applied)
    BY <1>1, <2>2 DEF Backed, Journal
  <2>3. CASE i = Len(applied) + 1
    BY <1>1, <2>1, <2>3 DEF Journal, Bootstraps
  <2> QED
    BY <2>1, <2>2, <2>3 DEF Journal
<1> QED
  BY <1>2, <1>3 DEF Journal

\* What a run takes next may be recorded.
LEMMA PendingFollows ==
  ASSUME IInv, NEW p \in Process, Holds(p), Len(applied) < Len(process[p].own)
  PROVE  LET d == process[p].own[Len(applied) + 1] IN
         /\ Follows(sealed, applied, d) /\ Backed(applied)
         /\ Written(d) \/ (applied = << >> /\ Bootstraps(d))
         /\ SubSeq(process[p].own, 1, Len(applied) + 1) = Append(applied, d)
<1> DEFINE own == process[p].own
<1> DEFINE n == Len(applied) + 1
<1>1. /\ own \in Seq(Nat) /\ applied \in Seq(Nat) /\ Fits(sealed, own)
      /\ SubSeq(own, 1, Len(applied)) = applied
      /\ Backed(own) \/ (Len(own) = 1 /\ Bootstraps(own[1]))
      /\ \A i \in n .. Len(own) : sealed[own[i]].format = "executable"
  BY DEF IInv, Shaped, Shape, Journal, Copies, Copied, Runs, Holds, Continues, Prefix
<1>2. n \in 1 .. Len(own) /\ Len(applied) \in Nat /\ Len(own) \in Nat
  BY <1>1
<1>3. sealed[own[n]].format = "executable"
  BY <1>1, <1>2
<1>4. Follows(sealed, applied, own[n]) /\ SubSeq(own, 1, n) = Append(applied, own[n])
  BY <1>1, <1>2, <1>3, NextFollows
<1>5. CASE Backed(own)
  <2>1. \A i \in 1 .. Len(applied) : applied[i] = own[i] /\ i \in 1 .. Len(own)
    BY <1>1, <1>2
  <2>2. Backed(applied) /\ Written(own[n])
    BY <1>2, <1>5, <2>1 DEF Backed
  <2> QED
    BY <1>4, <2>2
<1>6. CASE Len(own) = 1 /\ Bootstraps(own[1])
  <2>1. n = 1 /\ Len(applied) = 0
    BY <1>2, <1>6
  <2>2. applied = << >> /\ Backed(applied) /\ Bootstraps(own[n])
    BY <1>1, <1>6, <2>1 DEF Backed
  <2> QED
    BY <1>4, <2>2
<1> QED
  BY <1>1, <1>5, <1>6

\* A run starts the next artifact, or records one that has nothing to run.
LEMMA NextArtifactStep ==
  ASSUME IInv, AuthoringAssumption, NEW p \in Process, NextArtifact(p)
  PROVE  IInv'
<1> DEFINE d == process[p].own[Len(applied) + 1]
<1>1. /\ UNCHANGED <<sealed, files, removed, live, lease, faults>> /\ tried' = TRUE
      /\ process[p].at = "next"
  BY DEF NextArtifact, Is
<1>2. Holds(p) /\ Continues(p) /\ lease = p /\ ~Open
  BY <1>1 DEF IInv, Runs, Holds, Continues, Is
<1>3. /\ applied \in Seq(Nat) /\ process[p].own \in Seq(Nat)
      /\ Shape(process[p])
  BY DEF IInv, Journal, Shaped, Shape
<1>4. Len(applied) < Len(process[p].own)
  BY <1>2, <1>3 DEF NextArtifact, Starts, Finished, Continues, Prefix
<1>5. /\ Follows(sealed, applied, d) /\ Backed(applied)
      /\ Written(d) \/ (applied = << >> /\ Bootstraps(d))
      /\ SubSeq(process[p].own, 1, Len(applied) + 1) = Append(applied, d)
  BY <1>2, <1>4, PendingFollows
<1>6. d \in Nat /\ d # 0 /\ [digest |-> d, done |-> 0] # NoAttempt
  BY <1>5, OpenDigest DEF IInv
<1>7. \A q \in Process : q # p => ~Holds(q)
  BY <1>2 DEF IInv, Runs
<1>8. Directory' /\ Leased'
  BY <1>1 DEF IInv, Directory, Leased
<1>9. CASE Phases(Pending(p)) = << >>
  <2>1. applied' = Append(applied, d) /\ UNCHANGED <<attempt, process>>
    BY <1>9 DEF NextArtifact, Pending
  <2>2. Journal'
    BY <1>1, <1>5, <2>1, Recording DEF IInv
  <2>3. Attempts'
    BY <1>2, <2>1 DEF IInv, Attempts, Open
  <2>4. Shaped' /\ Drafts' /\ Copies'
    BY <1>1, <2>1 DEF IInv, Shaped, Drafts, Copies, Copied, Is, Written, Backed, Bootstraps
  <2>5. Continues(p)'
    <3>1. Len(applied') = Len(applied) + 1
      BY <1>3, <1>6, <2>1
    <3>2. Prefix(process[p].own)'
      <4>1. SubSeq(process[p].own, 1, Len(applied')) = applied'
        BY <1>5, <2>1, <3>1
      <4>2. Len(applied') <= Len(process[p].own)
        BY <1>3, <1>4, <3>1
      <4> QED
        BY <2>1, <4>1, <4>2 DEF Prefix
    <3>3. \A i \in (Len(applied') + 1) .. Len(process[p].own) :
            sealed[process[p].own[i]].format = "executable"
      <4>1. (Len(applied') + 1) .. Len(process[p].own)
              \subseteq (Len(applied) + 1) .. Len(process[p].own)
        BY <1>3, <3>1
      <4> QED
        BY <1>2, <4>1 DEF Continues
    <3> QED
      BY <1>1, <1>2, <2>1, <3>2, <3>3 DEF Continues, Is, Open
  <2>6. Runs'
    BY <1>1, <1>2, <1>7, <2>1, <2>5 DEF IInv, Runs, Holds
  <2> QED
    BY <1>8, <2>2, <2>3, <2>4, <2>6 DEF IInv
<1>10. CASE Phases(Pending(p)) # << >>
  <2> DEFINE r == [process[p] EXCEPT !.at = "phase"]
  <2>1. /\ attempt' = [digest |-> d, done |-> 0] /\ Set(p, r) /\ UNCHANGED applied
    BY <1>10 DEF NextArtifact, Pending
  <2>2. Shape(r) /\ r.at = "phase" /\ r.own = process[p].own
    BY <1>3, GoingOn
  <2>3. /\ Shaped' /\ process'[p].at = "phase" /\ process'[p].own = process[p].own
        /\ \A q \in Process : q # p => process'[q] = process[q]
    BY <2>1, <2>2, Setting DEF IInv
  <2>4. Open'
    BY <1>6, <2>1 DEF Open
  <2>5. Journal'
    BY <1>1, <2>1 DEF IInv, Journal, RecordsHaveFiles, Written
  <2>6. Attempts'
    <3>1. /\ attempt' \in [digest : Nat, done : Nat] /\ attempt'.digest = d
      BY <1>6, <2>1
    <3>2. /\ Follows(sealed, applied, attempt.digest)'
          /\ Backed(applied)'
          /\ (Written(attempt.digest) \/ (applied = << >> /\ Bootstraps(attempt.digest)))'
      BY <1>1, <1>5, <2>1, <3>1 DEF Backed, Written, Bootstraps
    <3> QED
      BY <1>1, <3>1, <3>2 DEF Attempts
  <2>7. Drafts'
    BY <1>1, <2>3 DEF IInv, Drafts, Is, Written
  <2>8. Copies'
    BY <1>1, <1>2, <2>3 DEF IInv, Copies, Copied, Holds, Backed, Written, Bootstraps
  <2>9. Continues(p)'
    <3>1. attempt'.digest = process'[p].own[Len(applied') + 1]
      BY <2>1, <2>3
    <3> QED
      BY <1>1, <1>2, <1>4, <2>1, <2>3, <2>4, <3>1 DEF Continues, Prefix, Is
  <2>10. Runs'
    BY <1>1, <1>2, <1>7, <2>3, <2>9 DEF IInv, Runs, Holds
  <2> QED
    BY <1>8, <2>3, <2>5, <2>6, <2>7, <2>8, <2>10 DEF IInv
<1> QED
  BY <1>9, <1>10

\* A phase commits; the last one records the artifact.
LEMMA RunPhaseStep ==
  ASSUME IInv, AuthoringAssumption, NEW p \in Process, RunPhase(p)
  PROVE  IInv'
<1> DEFINE d == process[p].own[Len(applied) + 1]
<1>1. UNCHANGED <<sealed, files, removed, tried, lease, faults>> /\ process[p].at = "phase"
  BY DEF RunPhase, Is
<1>2. /\ Holds(p) /\ Continues(p) /\ lease = p /\ Open /\ attempt.digest = d
      /\ Len(applied) < Len(process[p].own)
  BY <1>1 DEF IInv, Runs, Holds, Continues, Is
<1>3. /\ applied \in Seq(Nat) /\ process[p].own \in Seq(Nat)
      /\ Shape(process[p]) /\ attempt \in [digest : Nat, done : Nat]
  BY DEF IInv, Journal, Shaped, Shape, Attempts
<1>4. /\ Follows(sealed, applied, d) /\ Backed(applied)
      /\ Written(d) \/ (applied = << >> /\ Bootstraps(d))
      /\ SubSeq(process[p].own, 1, Len(applied) + 1) = Append(applied, d)
  BY <1>2, PendingFollows
<1>5. d \in Nat /\ d # 0
  BY <1>4, OpenDigest DEF IInv
<1>6. \A q \in Process : q # p => ~Holds(q)
  BY <1>2 DEF IInv, Runs
<1>7. Directory' /\ Leased'
  BY <1>1 DEF IInv, Directory, Leased
<1>8. CASE attempt.done + 1 = Len(Phases(attempt.digest))
  <2> DEFINE r == [process[p] EXCEPT !.at = "next"]
  <2>1. applied' = Append(applied, d) /\ attempt' = NoAttempt /\ Set(p, r)
    BY <1>2, <1>8 DEF RunPhase
  <2>2. Shape(r) /\ r.at = "next" /\ r.own = process[p].own
    BY <1>3, GoingOn
  <2>3. /\ Shaped' /\ process'[p].at = "next" /\ process'[p].own = process[p].own
        /\ \A q \in Process : q # p => process'[q] = process[q]
    BY <2>1, <2>2, Setting DEF IInv
  <2>4. Journal'
    BY <1>1, <1>4, <2>1, Recording DEF IInv
  <2>5. Attempts'
    BY <2>1 DEF Attempts, Open, NoAttempt
  <2>6. Drafts'
    BY <1>1, <2>3 DEF IInv, Drafts, Is, Written
  <2>7. Copies'
    BY <1>1, <1>2, <2>3 DEF IInv, Copies, Copied, Holds, Backed, Written, Bootstraps
  <2>8. Continues(p)'
    <3>1. Len(applied') = Len(applied) + 1
      BY <1>3, <1>5, <2>1
    <3>2. SubSeq(process[p].own, 1, Len(applied')) = applied'
      BY <1>4, <2>1, <3>1
    <3>3. Len(applied') <= Len(process[p].own)
      BY <1>2, <1>3, <3>1
    <3>4. \A i \in (Len(applied') + 1) .. Len(process[p].own) :
            sealed[process[p].own[i]].format = "executable"
      <4>1. (Len(applied') + 1) .. Len(process[p].own)
              \subseteq (Len(applied) + 1) .. Len(process[p].own)
        BY <1>3, <3>1
      <4> QED
        BY <1>2, <4>1 DEF Continues
    <3> QED
      BY <1>1, <2>1, <2>3, <3>2, <3>3, <3>4 DEF Continues, Prefix, Is, Open
  <2>9. Runs'
    BY <1>1, <1>2, <1>6, <2>3, <2>8 DEF IInv, Runs, Holds
  <2> QED
    BY <1>7, <2>3, <2>4, <2>5, <2>6, <2>7, <2>9 DEF IInv
<1>9. CASE attempt.done + 1 # Len(Phases(attempt.digest))
  <2>1. attempt' = [attempt EXCEPT !.done = @ + 1] /\ UNCHANGED <<applied, process>>
    BY <1>9 DEF RunPhase
  <2>2. attempt' \in [digest : Nat, done : Nat] /\ attempt'.digest = attempt.digest
    BY <1>3, <2>1
  <2>3. Open'
    BY <1>2, <1>5, <2>2 DEF Open, NoAttempt
  <2>4. Journal' /\ Shaped' /\ Drafts' /\ Copies'
    BY <1>1, <2>1 DEF IInv, Journal, RecordsHaveFiles, Shaped, Drafts, Copies, Copied, Is,
       Written, Backed, Bootstraps
  <2>5. Attempts'
    BY <1>1, <1>2, <2>1, <2>2 DEF IInv, Attempts, Backed, Written, Bootstraps
  <2>6. Runs'
    BY <1>1, <1>2, <2>1, <2>2, <2>3 DEF IInv, Runs, Holds, Continues, Prefix, Is
  <2> QED
    BY <1>7, <2>4, <2>5, <2>6 DEF IInv
<1> QED
  BY <1>8, <1>9

\* A phase that fails, before or after something was committed.
LEMMA CatchStep ==
  ASSUME IInv, AuthoringAssumption, NEW p \in Process, Is(p, "phase"), Catch(p)
  PROVE  IInv'
<1>1. lease = p
  BY DEF IInv, Runs, Holds, Is
<1>2. /\ lease' = NoOne /\ Set(p, Idle)
      /\ UNCHANGED <<sealed, files, removed, applied, tried>>
      /\ attempt' = attempt \/ attempt' = NoAttempt
  BY DEF Catch, Release
<1> QED
  BY <1>1, <1>2, FreshIdle, Ends

\* A record made without a run: reconcile, while nobody holds the lease.
LEMMA ReconcileAppliedStep ==
  ASSUME IInv, AuthoringAssumption, ReconcileApplied
  PROVE  IInv'
<1>1. /\ UNCHANGED <<sealed, files, removed, live, tried, lease, process, faults>>
      /\ lease = NoOne /\ Open /\ attempt' = NoAttempt
      /\ applied' = Append(applied, attempt.digest)
  BY DEF ReconcileApplied
<1>2. Journal'
  BY <1>1, Recording DEF IInv, Attempts
<1>3. Attempts'
  BY <1>1 DEF Attempts, Open, NoAttempt
<1>4. Directory' /\ Leased' /\ Shaped' /\ Drafts' /\ Copies'
  BY <1>1 DEF IInv, Directory, Leased, Shaped, Drafts, Copies, Copied, Is, Written, Backed,
     Bootstraps
<1>5. Runs'
  BY <1>1 DEF IInv, Runs, Holds, AuthoringAssumption
<1> QED
  BY <1>2, <1>3, <1>4, <1>5 DEF IInv

\* The other outcome, and a repair by hand.
LEMMA OperatorStep ==
  ASSUME IInv, AuthoringAssumption, ReconcileRolledBack \/ RepairPhase
  PROVE  IInv'
<1>1. /\ UNCHANGED <<sealed, files, removed, applied, tried, lease, process, faults>>
      /\ lease = NoOne /\ Open
      /\ attempt' = NoAttempt \/ attempt' = [attempt EXCEPT !.done = @ + 1]
  BY DEF ReconcileRolledBack, RepairPhase
<1>2. Attempts'
  <2>1. CASE attempt' = NoAttempt
    BY <2>1 DEF Attempts, Open, NoAttempt
  <2>2. CASE attempt' = [attempt EXCEPT !.done = @ + 1]
    <3>1. attempt' \in [digest : Nat, done : Nat] /\ attempt'.digest = attempt.digest
      BY <2>2 DEF IInv, Attempts
    <3> QED
      BY <1>1, <3>1 DEF IInv, Attempts, Backed, Written, Bootstraps
  <2> QED
    BY <1>1, <2>1, <2>2
<1>3. /\ Directory' /\ Leased' /\ Shaped' /\ Drafts' /\ Copies' /\ Journal'
  BY <1>1 DEF IInv, Directory, Leased, Shaped, Drafts, Copies, Copied, Journal,
     RecordsHaveFiles, Is, Written, Backed, Bootstraps
<1>4. Runs'
  BY <1>1 DEF IInv, Runs, Holds, AuthoringAssumption
<1> QED
  BY <1>2, <1>3, <1>4 DEF IInv

\* baseline: nothing runs and nothing is recorded when its record is made.
LEMMA RecordBaselineStep ==
  ASSUME IInv, AuthoringAssumption, NEW p \in Process, RecordBaseline(p)
  PROVE  IInv'
<1> DEFINE d == Len(sealed) + 1
<1>1. UNCHANGED <<files, removed, live, attempt, lease, faults>> /\ lease = NoOne
  BY DEF RecordBaseline
<1>2. CASE ~VerifyBaseline(p)
  <2>1. Set(p, Idle) /\ UNCHANGED <<sealed, applied, tried>>
    BY <1>2 DEF RecordBaseline
  <2>2. lease # p
    BY <1>1 DEF AuthoringAssumption
  <2> QED
    BY <1>1, <2>1, <2>2, FreshIdle, Ends
<1>3. CASE VerifyBaseline(p)
  <2>1. PICK id : Seal(Baseline(id, process[p].schema, process[p].candidate))
    BY <1>3 DEF RecordBaseline
  <2>2. applied' = <<d>> /\ tried' = TRUE
    BY <1>3 DEF RecordBaseline
  <2>3. /\ Directory' /\ Extends(sealed, sealed')
        /\ sealed'[d] = Baseline(id, process[p].schema, process[p].candidate)
        /\ d \in DOMAIN sealed' /\ d \notin DOMAIN sealed /\ d \in Nat
    BY <1>1, <2>1, SealingKeeps
  <2>4. PICK r : r = [Idle EXCEPT !.at = "write", !.draft = d]
    OBVIOUS
  <2>5. Shape(r) /\ r.at = "write" /\ r.draft = d
    BY <2>3, <2>4, FreshWrite
  <2>6. Set(p, r)
    BY <1>3, <2>4 DEF RecordBaseline
  <2>7. /\ Shaped' /\ process'[p] = r
        /\ \A q \in Process : q # p => process'[q] = process[q]
    BY <2>5, <2>6, Setting DEF IInv
  <2>8. Drafts'
    <3>1. d \notin files' \cup removed'
      BY <1>1, <2>3 DEF IInv, Directory
    <3>2. \A q \in Process : Is(q, "write") =>
            process[q].draft # d /\ process[q].draft \in DOMAIN sealed'
      BY <2>3 DEF IInv, Drafts, Extends
    <3> QED
      BY <1>1, <2>3, <2>5, <2>7, <3>1, <3>2 DEF IInv, Drafts, Is, Written
  <2>9. Copies'
    <3>1. \A q \in Process : process'[q] = process[q] /\ Copied(q)' =>
             /\ Fits(sealed, process[q].own)'
             /\ \/ Backed(process[q].own)'
                \/ (Len(process[q].own) = 1 /\ Bootstraps(process[q].own[1]))'
      BY <1>1, <2>1, SealedIds
    <3>2. ~Copied(p)'
      BY <2>5, <2>7 DEF Copied
    <3> QED
      BY <2>7, <3>1, <3>2 DEF Copies
  <2>10. Journal'
    <3>1. /\ applied' \in Seq(Nat) /\ Len(applied') = 1 /\ DOMAIN applied' = 1 .. 1
          /\ applied'[1] = d
      BY <2>2, <2>3
    <3>2. /\ sealed'[d].seq = 0 /\ sealed'[d].parent = 0
          /\ sealed'[d].format = "baseline"
      BY <2>3 DEF Baseline
    <3>3. Fits(sealed', applied') /\ OneBaseline(sealed', applied')
      BY <2>3, <3>1, <3>2 DEF Fits, OneBaseline, Before
    <3>4. RecordsHaveFiles'
      BY <3>1, <3>2 DEF RecordsHaveFiles
    <3> QED
      BY <3>1, <3>3, <3>4 DEF Journal
  <2>11. ~Open /\ Attempts'
    BY <1>1, <1>3 DEF IInv, Attempts, Open, VerifyBaseline, EmptyHistory
  <2>12. Runs' /\ Leased'
    <3>1. \A q \in Process : ~Holds(q)
      BY <1>1 DEF IInv, Runs, AuthoringAssumption
    <3>2. \A q \in Process : ~Holds(q)'
      BY <2>5, <2>7, <3>1 DEF Holds
    <3> QED
      BY <1>1, <3>2 DEF IInv, Runs, Leased, AuthoringAssumption
  <2> QED
    BY <2>3, <2>7, <2>8, <2>9, <2>10, <2>11, <2>12 DEF IInv
<1> QED
  BY <1>2, <1>3

-----------------------------------------------------------------------------
(* The theorems.                                                            *)

\* It holds of an empty directory and an empty journal.
LEMMA InitIInv == ASSUME AuthoringAssumption, Init PROVE IInv
<1>1. sealed = << >> /\ files = {} /\ removed = {} /\ applied = << >>
      /\ attempt = NoAttempt /\ lease = NoOne /\ process = [p \in Process |-> Idle]
  BY DEF Init
<1>2. sealed \in Seq({}) /\ applied \in Seq(Nat) /\ Len(applied) = 0
  BY <1>1
<1>3. Directory
  BY <1>1, <1>2, FS_EmptySet DEF Directory, IsList
<1>4. Shaped /\ \A p \in Process : process[p].at = "idle"
  BY <1>1, FreshIdle DEF Shaped
<1>5. Drafts /\ Copies /\ Runs /\ Leased
  BY <1>1, <1>4 DEF Drafts, Copies, Copied, Runs, Holds, Leased, Is, AuthoringAssumption
<1>6. Journal /\ Attempts
  BY <1>1, <1>2 DEF Journal, Attempts, Fits, OneBaseline, RecordsHaveFiles, Open, NoAttempt
<1> QED
  BY <1>3, <1>4, <1>5, <1>6 DEF IInv

\* Every step keeps the invariant of the journal.
LEMMA StepIInv == ASSUME AuthoringAssumption, IInv, [Next]_vars PROVE IInv'
<1>1. ASSUME NEW p \in Process, CreateOrRecord(p) PROVE IInv'
  <2>1. CASE Create(p)
    BY <2>1, CreateStep
  <2>2. CASE Bootstrap(p)
    BY <2>2, BootstrapStep
  <2>3. CASE Capture(p)
    <3>1. PICK name : Set(p, [Idle EXCEPT !.at = "review", !.schema = name,
                                          !.candidate = Schema[name]])
      BY <2>3 DEF Capture
    <3>2. lease # p
      BY <2>3 DEF Capture, AuthoringAssumption
    <3> QED
      BY <2>3, <3>1, <3>2, FreshReview, Ends DEF Capture
  <2>4. CASE RecordBaseline(p)
    BY <2>4, RecordBaselineStep
  <2>5. CASE Abandon(p)
    <3>1. lease # p
      BY <2>5 DEF Abandon, Is, IInv, Runs, Holds
    <3> QED
      BY <2>5, <3>1, FreshIdle, Ends DEF Abandon
  <2>6. CASE WriteFile(p)
    BY <2>6, WriteFileStep
  <2> QED
    BY <1>1, <2>1, <2>2, <2>3, <2>4, <2>5, <2>6 DEF CreateOrRecord
<1>2. ASSUME NEW p \in Process, RunPending(p) PROVE IInv'
  <2>1. CASE Apply(p)
    BY <2>1, ApplyStep
  <2>2. CASE AcquireLease(p)
    BY <2>2, AcquireLeaseStep
  <2>3. CASE NextArtifact(p)
    BY <2>3, NextArtifactStep
  <2>4. CASE StopRun(p)
    <3>1. lease = p
      BY <2>4 DEF StopRun, Is, IInv, Runs, Holds
    <3> QED
      BY <2>4, <3>1, FreshIdle, Ends DEF StopRun, Release
  <2>5. CASE RunPhase(p)
    BY <2>5, RunPhaseStep
  <2>6. CASE RefusePhase(p)
    BY <2>6, CatchStep DEF RefusePhase
  <2> QED
    BY <1>2, <2>1, <2>2, <2>3, <2>4, <2>5, <2>6 DEF RunPending
<1>3. ASSUME NEW p \in Process, FailPhase(p) PROVE IInv'
  BY <1>3, CatchStep DEF FailPhase
<1>4. ASSUME NEW p \in Process, Crash(p) PROVE IInv'
  BY <1>4, FreshIdle, Ends DEF Crash
<1>5. CASE Operator
  BY <1>5, ReconcileAppliedStep, OperatorStep, RemoveFileStep DEF Operator
<1>6. CASE UNCHANGED vars
  BY <1>6 DEF vars, IInv, Directory, Shaped, Drafts, Copies, Copied, Journal, Attempts, Runs,
     Holds, Continues, Leased, Is, Written, Backed, Bootstraps, Open, Prefix, RecordsHaveFiles
<1> QED
  BY <1>1, <1>2, <1>3, <1>4, <1>5, <1>6 DEF Next

\* In every reachable state.
THEOREM Invariance == Spec => []IInv
<1>1. Init => IInv
  BY InitIInv, AuthoringAssumption
<1>2. IInv /\ [Next]_vars => IInv'
  BY StepIInv, AuthoringAssumption
<1> QED
  BY <1>1, <1>2, PTL DEF Spec

\* The lease, the open attempt, the drafts and the directory fit together,
\* whatever crashes and whoever removes files (cli.ts, repository.ts).
THEOREM ControlAlways == Spec => []Control
<1>1. IInv => Control
  <2> SUFFICES ASSUME IInv PROVE Control
    OBVIOUS
  <2>1. \A p \in Process :
          /\ process[p].at \in {"next", "phase"} <=> lease = p
          /\ Is(p, "phase") => Open
          /\ Is(p, "write") => process[p].draft \in DOMAIN sealed \ (files \cup removed)
    BY DEF IInv, Runs, Holds, Continues, Drafts, Written, Is
  <2>2. Open => attempt.digest \in DOMAIN sealed /\ tried
    BY DEF IInv, Attempts, Follows
  <2>3. {applied[i] : i \in DOMAIN applied} \subseteq DOMAIN sealed
    BY DEF IInv, Journal, Fits
  <2> QED
    BY <2>1, <2>2, <2>3 DEF Control, IInv, Directory
<1> QED
  BY <1>1, Invariance, PTL

\* The journal stays one chain of what was sealed (cli.ts, repository/index.ts,
\* executor/index.ts, baseline/index.ts).
THEOREM HistoryChainsAlways == Spec => []HistoryChains
<1>1. ASSUME IInv, NEW i \in DOMAIN applied
      PROVE  LET d == sealed[applied[i]]
                 parent == IF i = 1 THEN 0 ELSE applied[i - 1]
             IN /\ d.seq = i - 1 /\ d.parent = parent
                /\ d.format = "executable" /\ i > 1 => d.before = AfterOf(parent)
                /\ d.format = "baseline" => i = 1
  <2>1. i \in 1 .. Len(applied) /\ Fits(sealed, applied) /\ OneBaseline(sealed, applied)
    BY <1>1 DEF IInv, Journal
  <2>2. Before(applied, i) = IF i = 1 THEN 0 ELSE applied[i - 1]
    BY DEF Before
  <2>3. AfterIn(sealed, Before(applied, i)) = AfterOf(Before(applied, i))
    BY DEF AfterIn, AfterOf
  <2>4. sealed[applied[i]].format = "baseline" => i = 1
    BY <2>1 DEF OneBaseline
  <2> QED
    BY <2>1, <2>2, <2>3, <2>4 DEF Fits
<1>2. IInv => HistoryChains
  BY <1>1 DEF HistoryChains
<1> QED
  BY <1>2, Invariance, PTL

\* Nothing of a fork that lost ever runs (executor/index.ts).
THEOREM RunFollowsJournalAlways == Spec => []RunFollowsJournal
<1>1. ASSUME IInv, NEW p \in Process, Holds(p)
      PROVE  /\ Prefix(process[p].own)
             /\ Is(p, "phase") => /\ attempt.digest = Pending(p)
                                  /\ Running.parent = Tip(applied)
  <2>1. Continues(p)
    BY <1>1 DEF IInv, Runs
  <2>2. ASSUME Is(p, "phase")
        PROVE  attempt.digest = Pending(p) /\ Running.parent = Tip(applied)
    <3>1. attempt.digest = Pending(p) /\ Open
      BY <2>1, <2>2 DEF Continues, Pending
    <3>2. sealed[attempt.digest].parent = Before(applied, Len(applied) + 1)
      BY <1>1, <3>1 DEF IInv, Attempts, Follows
    <3> QED
      BY <1>1, <3>1, <3>2 DEF IInv, Journal, Before, Tip, Running
  <2> QED
    BY <2>1, <2>2 DEF Continues
<1>2. IInv => RunFollowsJournal
  BY <1>1 DEF RunFollowsJournal, Holds
<1> QED
  BY <1>2, Invariance, PTL

\* A record without a file is the first one, of a bootstrap or a baseline
\* (cli/src/repository.ts, cli.ts).
THEOREM RecordsHaveFilesAlways == Spec => []RecordsHaveFiles
<1>1. IInv => RecordsHaveFiles
  BY DEF IInv, Journal
<1> QED
  BY <1>1, Invariance, PTL

-----------------------------------------------------------------------------
(* Transactions of one and of two statements, which is what a phase has.    *)

\* What RunAll makes of one more statement.
Ran(base, so, st) ==
  IF so.ok /\ Possible(so.live, st) THEN [ok |-> TRUE, live |-> After(so.live, st)]
  ELSE [ok |-> FALSE, live |-> base]

\* A transaction before its first statement.
Started(base) == [ok |-> TRUE, live |-> base]

\* The fold takes a set of positions from its largest.
LEMMA MaxOf == Max({1}) = 1 /\ Max({2}) = 2 /\ Max({1, 2}) = 2
<1>1. Max({1}) = 1
  BY DEF Max
<1>2. Max({2}) = 2
  BY DEF Max
<1>3. Max({1, 2}) = 2
  BY DEF Max
<1> QED BY <1>1, <1>2, <1>3

\* A transaction of one statement runs it.
LEMMA RunOne ==
  ASSUME NEW base, NEW s
  PROVE  RunAll(base, <<s>>) = Ran(base, Started(base), s)
<1> DEFINE start == [ok |-> TRUE, live |-> base]
           body(g, x) == IF x = {} THEN start ELSE Ran(base, g[x \ {Max(x)}], <<s>>[Max(x)])
           iter == CHOOSE g : g = [x \in SUBSET {1} |-> body(g, x)]
           w == [x \in SUBSET {1} |-> IF x = {} THEN start ELSE Ran(base, start, s)]
<1>1. RunAll(base, <<s>>) = iter[{1}]
  BY DEF RunAll, FoldLeft, MapThenFoldSet, Ran
<1>2. \A x \in SUBSET {1} : x = {} \/ x = {1}
  OBVIOUS
<1>3. w = [x \in SUBSET {1} |-> body(w, x)]
  <2>1. w[{}] = start
    OBVIOUS
  <2>2. {1} \ {Max({1})} = {}
    BY MaxOf
  <2>3. body(w, {1}) = Ran(base, start, s)
    <3>1. body(w, {1}) = Ran(base, w[{1} \ {Max({1})}], <<s>>[Max({1})])
      OBVIOUS
    <3> HIDE DEF body, w, start
    <3> QED BY <3>1, <2>1, <2>2, MaxOf
  <2>4. body(w, {}) = start
    OBVIOUS
  <2>5. w[{1}] = Ran(base, start, s)
    OBVIOUS
  <2>6. \A x \in SUBSET {1} : body(w, x) = IF x = {} THEN start ELSE Ran(base, start, s)
    <3> HIDE DEF body, w, start
    <3> QED BY <1>2, <2>3, <2>4
  <2> HIDE DEF body
  <2> QED BY <2>6
<1>4. iter = [x \in SUBSET {1} |-> body(iter, x)]
  <2> HIDE DEF w, body
  <2> QED BY <1>3
<1>5. iter[{}] = start
  <2>1. iter[{}] = body(iter, {})
    <3> HIDE DEF iter, body
    <3> QED BY <1>4
  <2> QED BY <2>1
<1>6. iter[{1}] = Ran(base, iter[{1} \ {Max({1})}], <<s>>[Max({1})])
  <2>1. iter[{1}] = body(iter, {1})
    <3> HIDE DEF iter, body
    <3> QED BY <1>4
  <2> HIDE DEF iter
  <2> QED BY <2>1
<1>7. {1} \ {Max({1})} = {} /\ <<s>>[Max({1})] = s
  BY MaxOf
<1> HIDE DEF iter
<1> QED
  BY <1>1, <1>5, <1>6, <1>7 DEF Started

\* A transaction of two statements runs the first and then the second.
LEMMA RunTwo ==
  ASSUME NEW base, NEW s, NEW t
  PROVE  RunAll(base, <<s, t>>) = Ran(base, Ran(base, Started(base), s), t)
<1> DEFINE start == [ok |-> TRUE, live |-> base]
           body(g, x) == IF x = {} THEN start ELSE Ran(base, g[x \ {Max(x)}], <<s, t>>[Max(x)])
           iter == CHOOSE g : g = [x \in SUBSET {1, 2} |-> body(g, x)]
           one == Ran(base, start, s)
           r(x) == IF x = {} THEN start ELSE IF x = {1} THEN one
                   ELSE IF x = {2} THEN Ran(base, start, t) ELSE Ran(base, one, t)
           w == [x \in SUBSET {1, 2} |-> r(x)]
<1>0. DOMAIN <<s, t>> = {1, 2}
  OBVIOUS
<1>1. RunAll(base, <<s, t>>) = iter[{1, 2}]
  BY <1>0 DEF RunAll, FoldLeft, MapThenFoldSet, Ran
<1>2. \A x \in SUBSET {1, 2} : x = {} \/ x = {1} \/ x = {2} \/ x = {1, 2}
  OBVIOUS
<1>m. /\ {1} \ {Max({1})} = {} /\ <<s, t>>[Max({1})] = s
      /\ {2} \ {Max({2})} = {} /\ <<s, t>>[Max({2})] = t
      /\ {1, 2} \ {Max({1, 2})} = {1} /\ <<s, t>>[Max({1, 2})] = t
  BY MaxOf
<1>3. w = [x \in SUBSET {1, 2} |-> body(w, x)]
  <2>1. w[{}] = start /\ w[{1}] = one
    OBVIOUS
  <2>2. body(w, {}) = r({})
    OBVIOUS
  <2>3. body(w, {1}) = r({1})
    <3>1. body(w, {1}) = Ran(base, w[{1} \ {Max({1})}], <<s, t>>[Max({1})]) /\ r({1}) = one
      OBVIOUS
    <3> HIDE DEF body, w, start, r
    <3> QED BY <3>1, <2>1, <1>m
  <2>4. body(w, {2}) = r({2})
    <3>1. /\ body(w, {2}) = Ran(base, w[{2} \ {Max({2})}], <<s, t>>[Max({2})])
          /\ r({2}) = Ran(base, start, t)
      OBVIOUS
    <3> HIDE DEF body, w, start, r
    <3> QED BY <3>1, <2>1, <1>m
  <2>5. body(w, {1, 2}) = r({1, 2})
    <3>0. {1, 2} # {} /\ {1, 2} # {1} /\ {1, 2} # {2}
      OBVIOUS
    <3>1. /\ body(w, {1, 2}) = Ran(base, w[{1, 2} \ {Max({1, 2})}], <<s, t>>[Max({1, 2})])
          /\ r({1, 2}) = Ran(base, one, t)
      BY <3>0
    <3> HIDE DEF body, w, start, r, one
    <3> QED BY <3>1, <2>1, <1>m
  <2>6. \A x \in SUBSET {1, 2} : body(w, x) = r(x)
    <3> HIDE DEF body, w, start, r
    <3> QED BY <1>2, <2>2, <2>3, <2>4, <2>5
  <2> HIDE DEF body, r
  <2> QED BY <2>6
<1>4. iter = [x \in SUBSET {1, 2} |-> body(iter, x)]
  <2> HIDE DEF w, body
  <2> QED BY <1>3
<1>5. iter[{}] = start
  <2>1. iter[{}] = body(iter, {})
    <3> HIDE DEF iter, body
    <3> QED BY <1>4
  <2> QED BY <2>1
<1>6. iter[{1}] = Ran(base, iter[{1} \ {Max({1})}], <<s, t>>[Max({1})])
  <2>1. iter[{1}] = body(iter, {1})
    <3> HIDE DEF iter, body
    <3> QED BY <1>4
  <2> HIDE DEF iter
  <2> QED BY <2>1
<1>7. iter[{1, 2}] = Ran(base, iter[{1, 2} \ {Max({1, 2})}], <<s, t>>[Max({1, 2})])
  <2>1. iter[{1, 2}] = body(iter, {1, 2})
    <3> HIDE DEF iter, body
    <3> QED BY <1>4
  <2> HIDE DEF iter
  <2> QED BY <2>1
<1> HIDE DEF iter
<1> QED
  BY <1>1, <1>5, <1>6, <1>7, <1>m DEF Started

-----------------------------------------------------------------------------
(* What single statements do to columns.                                    *)

\* The catalog holds objects, and nothing hangs on a column's own lists.
CatalogOf(s) == \A o \in s : IsObject(o) /\ (o.kind = "column" => o.over = {})

\* A table of the old snapshot that the new one does not have.
Leaves(t, before, after) == t \in Tables(before) /\ Matching(after, t) = {}

\* No table that leaves has this name.
Avoids(name, before, after) == \A t \in Tables(before) : Leaves(t, before, after) => t.name # name

\* The tables that leave have no columns but those the old snapshot knows.
OnlyKnown(s, before, after) ==
  \A t \in Tables(before) : Leaves(t, before, after) =>
    \A c \in Of(s, "column") : c.parent = t.name =>
      \E b \in Of(before, "column") : b.parent = t.id /\ b.name = c.name

\* What the database keeps to while a program runs.
Sound(s, before, after) == CatalogOf(s) /\ OnlyKnown(s, before, after)

\* An object that may be added to such a database.
Harmless(o, before, after) == IsObject(o) /\ (o.kind = "column" => o.over = {} /\ Avoids(o.parent, before, after))

\* Numbering an object changes nothing else of it.
LEMMA Numbered ==
  ASSUME NEW o, IsObject(o), NEW n
  PROVE  LET p == [o EXCEPT !.ord = n] IN
         /\ IsObject(p) /\ p.kind = o.kind /\ p.parent = o.parent /\ p.id = o.id
         /\ p.name = o.name /\ p.over = o.over /\ p.ord = n
BY DEF IsObject

\* A database stays sound when it loses objects or gets harmless ones.
LEMMA Smaller ==
  ASSUME NEW s, NEW before, NEW after, Sound(s, before, after), NEW t,
         \A o \in t : o \in s \/ Harmless(o, before, after)
  PROVE  Sound(t, before, after)
<1>1. CatalogOf(t)
  BY DEF Sound, CatalogOf, Harmless
<1>2. OnlyKnown(t, before, after)
  BY DEF Sound, OnlyKnown, Harmless, Avoids, Of
<1> QED
  BY <1>1, <1>2 DEF Sound

\* CREATE keeps the database sound and every column.
LEMMA Creating ==
  ASSUME NEW s, NEW before, NEW after, Sound(s, before, after), NEW o, NEW columns,
         Harmless(o, before, after), \A c \in columns : Harmless(c, before, after),
         CanCreate(s, o, columns), o.kind = "column" => o.parent # ""
  PROVE  LET t == AfterCreate(s, o, columns) IN
         Sound(t, before, after) /\ Of(s, "column") \subseteq t
<1> DEFINE t == AfterCreate(s, o, columns)
<1>1. CASE o.kind = "table"
  <2> DEFINE made == [o EXCEPT !.ord = Cardinality(columns)]
  <2>1. t = s \cup {made} \cup columns
    BY <1>1 DEF AfterCreate
  <2>2. IsObject(made) /\ made.kind = "table"
    BY <1>1, Numbered DEF Harmless
  <2>3. Harmless(made, before, after)
    BY <2>2 DEF Harmless
  <2> QED
    BY <2>1, <2>3, Smaller DEF Of
<1>2. CASE o.kind = "column"
  <2> DEFINE table == CHOOSE x \in Tables(s) : x.name = o.parent
             widened == [table EXCEPT !.ord = table.ord + 1]
             made == [o EXCEPT !.ord = table.ord + 1]
  <2>1. t = (s \ {table}) \cup {widened, made}
    BY <1>2 DEF AfterCreate
  <2>2. \E x \in Tables(s) : x.name = o.parent
    BY <1>2 DEF CanCreate, Has, Tables, Of
  <2>3. table \in Tables(s)
    BY <2>2
  <2>4. table \in s /\ table.kind = "table" /\ IsObject(table)
    BY <2>3 DEF Tables, Of, Sound, CatalogOf
  <2>5. IsObject(widened) /\ widened.kind = "table"
    <3> HIDE DEF table
    <3> QED BY <2>4, Numbered
  <2>6. Harmless(widened, before, after)
    BY <2>5 DEF Harmless
  <2>7. Harmless(made, before, after)
    BY Numbered DEF Harmless
  <2>8. Sound(t, before, after)
    <3> HIDE DEF table, widened, made
    <3> QED BY <2>1, <2>6, <2>7, Smaller
  <2>9. Of(s, "column") \subseteq t
    BY <2>1, <2>4 DEF Of
  <2> QED
    BY <2>8, <2>9
<1>3. CASE o.kind \notin {"table", "column"}
  <2>1. t = s \cup {o}
    BY <1>3 DEF AfterCreate
  <2> QED
    BY <2>1, Smaller DEF Of
<1> QED
  BY <1>1, <1>2, <1>3

\* DROP takes no column but the one it names or those of the table it names.
LEMMA Dropping ==
  ASSUME NEW s, NEW before, NEW after, Sound(s, before, after),
         NEW kind, NEW parent, NEW name
  PROVE  LET st == DropStatement(kind, parent, name)
             t == After(s, st) IN
         /\ Sound(t, before, after)
         /\ \A c \in Of(s, "column") : c \notin t =>
              \/ kind = "column" /\ c.name = name /\ c.parent = parent
              \/ kind = "table" /\ c.parent = name
<1> DEFINE st == DropStatement(kind, parent, name)
           t == After(s, st)
<1>1. t = s \ UNION {Dropped(s, o) : o \in Named(s, st)}
  BY DEF After, DropStatement
<1>2. Sound(t, before, after)
  BY <1>1, Smaller
<1>3. ASSUME NEW c \in Of(s, "column"), c \notin t
      PROVE  \/ kind = "column" /\ c.name = name /\ c.parent = parent
             \/ kind = "table" /\ c.parent = name
  <2>1. PICK o \in Named(s, st) : c \in Dropped(s, o)
    BY <1>1, <1>3 DEF Of
  <2>2. /\ o \in s /\ o.kind = kind /\ o.name = name
        /\ kind = "index" \/ o.parent = parent
    BY DEF Named, DropStatement
  <2>3. c \in s /\ c.kind = "column" /\ c.over = {}
    BY DEF Of, Sound, CatalogOf
  <2>4. CASE kind = "column"
    BY <2>1, <2>2, <2>3, <2>4 DEF Dropped
  <2>5. CASE kind = "table"
    BY <2>1, <2>2, <2>3, <2>5 DEF Dropped, Children
  <2>6. CASE kind \notin {"table", "column"}
    BY <2>1, <2>2, <2>3, <2>6 DEF Dropped
  <2> QED
    BY <2>4, <2>5, <2>6
<1> QED
  BY <1>2, <1>3

\* RENAME leaves of every column its number, and its name or its table.
LEMMA Renames ==
  ASSUME NEW s, NEW before, NEW after, Sound(s, before, after),
         NEW kind, NEW parent, NEW name, NEW to,
         kind = "table" => Avoids(to, before, after),
         kind = "column" => Avoids(parent, before, after)
  PROVE  LET st == RenameStatement(kind, parent, name, to)
             t == After(s, st) IN
         /\ Sound(t, before, after)
         /\ \A c \in Of(s, "column") : \E d \in Of(t, "column") :
              /\ d.ord = c.ord
              /\ kind # "table" => d.parent = c.parent
              /\ kind # "column" => d.name = c.name
<1> DEFINE st == RenameStatement(kind, parent, name, to)
           t == After(s, st)
<1>1. t = {Renaming(o, st) : o \in s}
  BY DEF After, RenameStatement
<1>2. ASSUME NEW o \in s
      PROVE  LET r == Renaming(o, st) IN
             /\ IsObject(r) /\ r.kind = o.kind /\ r.ord = o.ord
             /\ o.over = {} => r.over = {}
             /\ r.parent = IF kind = "table" /\ o.parent = name THEN to ELSE o.parent
             /\ o.kind = "column" =>
                  r.name = IF kind = "column" /\ o.name = name /\ o.parent = parent THEN to ELSE o.name
  <2>1. IsObject(o)
    BY DEF Sound, CatalogOf
  <2> DEFINE self == o.kind = kind /\ o.name = name /\ (kind = "index" \/ o.parent = parent)
             in(table) == IF kind = "table" /\ table = name THEN to ELSE table
             column(table, c) == IF kind = "column" /\ table = parent /\ c = name THEN to ELSE c
             over == {column(o.parent, c) : c \in o.over}
             refs == {in(x) : x \in o.refs}
             keys == {column(x, c) : x \in o.refs, c \in o.keys}
             value == IF kind = "enum" /\ o.kind = "column" /\ o.value = name THEN to ELSE o.value
  <2>2. Renaming(o, st) =
          [o EXCEPT !.id = IF self THEN to ELSE o.id, !.name = IF self THEN to ELSE o.name,
                    !.parent = in(o.parent), !.refs = refs, !.over = over, !.keys = keys,
                    !.value = value]
    BY <2>1 DEF Renaming, RenameStatement, IsObject
  <2>3. o.over = {} => over = {}
    OBVIOUS
  <2> HIDE DEF over, refs, keys, value
  <2> QED
    BY <2>1, <2>2, <2>3 DEF IsObject
<1>3. CatalogOf(t)
  BY <1>1, <1>2 DEF CatalogOf, Sound
<1>4. OnlyKnown(t, before, after)
  <2> SUFFICES ASSUME NEW x \in Tables(before), Leaves(x, before, after),
                      NEW c \in Of(t, "column"), c.parent = x.name
               PROVE  \E b \in Of(before, "column") : b.parent = x.id /\ b.name = c.name
    BY DEF OnlyKnown
  <2>1. PICK o \in s : c = Renaming(o, st)
    BY <1>1 DEF Of
  <2>2. o.kind = "column" /\ o.parent = x.name /\ o.name = c.name
    BY <2>1, <1>2 DEF Avoids, Of
  <2> QED
    BY <2>2 DEF Sound, OnlyKnown, Of
<1>5. ASSUME NEW c \in Of(s, "column")
      PROVE  \E d \in Of(t, "column") :
               /\ d.ord = c.ord
               /\ kind # "table" => d.parent = c.parent
               /\ kind # "column" => d.name = c.name
  <2>1. c \in s /\ c.kind = "column"
    BY DEF Of
  <2>2. Renaming(c, st) \in Of(t, "column")
    BY <2>1, <1>1, <1>2 DEF Of
  <2> QED
    BY <2>1, <2>2, <1>2
<1> QED
  BY <1>3, <1>4, <1>5 DEF Sound

\* ALTER leaves every column its name, its table and its number.
LEMMA Altering ==
  ASSUME NEW s, NEW before, NEW after, Sound(s, before, after),
         NEW parent, NEW name, NEW value, NEW nullable
  PROVE  LET st == AlterStatement(parent, name, value, nullable)
             t == After(s, st) IN
         /\ Sound(t, before, after)
         /\ \A c \in Of(s, "column") : \E d \in Of(t, "column") :
              d.ord = c.ord /\ d.parent = c.parent /\ d.name = c.name
<1> DEFINE st == AlterStatement(parent, name, value, nullable)
           t == After(s, st)
           f(o) == IF o.kind = "column" /\ o.parent = parent /\ o.name = name
                   THEN [o EXCEPT !.value = value, !.nullable = nullable] ELSE o
<1>1. t = {f(o) : o \in s}
  BY DEF After, AlterStatement
<1>2. ASSUME NEW o \in s
      PROVE  /\ IsObject(f(o)) /\ f(o).kind = o.kind /\ f(o).ord = o.ord /\ f(o).over = o.over
             /\ f(o).parent = o.parent /\ f(o).name = o.name
  <2>1. IsObject(o)
    BY DEF Sound, CatalogOf
  <2> QED
    BY <2>1 DEF IsObject
<1> HIDE DEF f
<1>3. CatalogOf(t)
  BY <1>1, <1>2 DEF CatalogOf, Sound
<1>4. OnlyKnown(t, before, after)
  <2> SUFFICES ASSUME NEW x \in Tables(before), Leaves(x, before, after),
                      NEW c \in Of(t, "column"), c.parent = x.name
               PROVE  \E b \in Of(before, "column") : b.parent = x.id /\ b.name = c.name
    BY DEF OnlyKnown
  <2>1. PICK o \in s : c = f(o)
    BY <1>1 DEF Of
  <2>2. o.kind = "column" /\ o.parent = x.name /\ o.name = c.name
    BY <2>1, <1>2 DEF Of
  <2> QED
    BY <2>2 DEF Sound, OnlyKnown, Of
<1>5. ASSUME NEW c \in Of(s, "column")
      PROVE  \E d \in Of(t, "column") : d.ord = c.ord /\ d.parent = c.parent /\ d.name = c.name
  <2>1. c \in s /\ c.kind = "column"
    BY DEF Of
  <2>2. f(c) \in Of(t, "column")
    BY <2>1, <1>1, <1>2 DEF Of
  <2> QED
    BY <2>1, <2>2, <1>2
<1> QED
  BY <1>3, <1>4, <1>5 DEF Sound

-----------------------------------------------------------------------------
(* The names of the tables that the statements of a plan are about.         *)

\* What the comparison says of its operations.
LEMMA Compared ==
  ASSUME NEW before, NEW after, NEW op \in Diff(before, after)
  PROVE  \/ /\ op.type \in {"rename", "change"}
            /\ op.before \in before /\ op.after \in after
            /\ op.after \in Matching(after, op.before)
            /\ op.type = "change" => op.after.name = op.before.name
         \/ op.type = "remove" /\ op.before \in before /\ Matching(after, op.before) = {}
         \/ op.type = "add" /\ op.after \in after /\ Matching(before, op.after) = {}
<1> DEFINE matched == UNION {UNION {OperationForMatch(b, a) : a \in Matching(after, b)} : b \in before}
           removals == {Operation("remove", b, Nothing) : b \in {o \in before : Matching(after, o) = {}}}
           additions == {Operation("add", Nothing, a) : a \in {o \in after : Matching(before, o) = {}}}
<1>0. Diff(before, after) = matched \cup removals \cup additions
  BY DEF Diff
<1>1. CASE op \in matched
  <2>1. PICK b \in before : op \in UNION {OperationForMatch(b, a) : a \in Matching(after, b)}
    BY <1>1
  <2>2. PICK a \in Matching(after, b) : op \in OperationForMatch(b, a)
    BY <2>1
  <2>3. op.before = b /\ op.after = a /\ op.type \in {"rename", "change"}
        /\ (op.type = "change" => a.name = b.name)
    BY <2>2 DEF OperationForMatch, Operation
  <2> QED
    BY <2>3 DEF Matching
<1>2. CASE op \in removals
  BY <1>2 DEF Operation
<1>3. CASE op \in additions
  BY <1>3 DEF Operation
<1> HIDE DEF matched, removals, additions
<1> QED
  BY <1>0, <1>1, <1>2, <1>3

\* A match has the kind, the parent and the id.
LEMMA SameKey ==
  ASSUME NEW s, NEW o, NEW m \in Matching(s, o)
  PROVE  m \in s /\ m.kind = o.kind /\ m.parent = o.parent /\ m.id = o.id
BY DEF Matching, Key

\* What has the kind, the parent and the id is a match.
LEMMA Keyed ==
  ASSUME NEW s, NEW o, NEW m \in s, m.kind = o.kind, m.parent = o.parent, m.id = o.id
  PROVE  m \in Matching(s, o)
BY DEF Matching, Key

\* A table has a name and is under nothing.
LEMMA TableFacts ==
  ASSUME NEW s, WellFormed(s), NEW t \in Tables(s)
  PROVE  IsObject(t) /\ t \in s /\ t.kind = "table" /\ t.parent = "" /\ t.name # ""
BY DEF WellFormed, Tables, Of

\* A table is found by its id.
LEMMA TableById ==
  ASSUME NEW s, WellFormed(s), NEW t \in Tables(s),
         NEW o, o.kind = "table", o.parent = "", o.id = t.id
  PROVE  t \in Matching(s, o)
<1>1. t \in s /\ t.kind = "table" /\ t.parent = ""
  BY TableFacts
<1> QED
  BY <1>1, Keyed

\* No two tables of a snapshot have one id.
LEMMA OneTable ==
  ASSUME NEW s, WellFormed(s), NEW t \in Tables(s), NEW u \in Tables(s), t.id = u.id
  PROVE  t = u
<1>1. u \in Matching(s, t)
  BY TableFacts, TableById
<1>2. Matching(s, t) = {t}
  BY TableFacts DEF WellFormed
<1> QED
  BY <1>1, <1>2

\* What is no table and no enum is in a table.
LEMMA Holder ==
  ASSUME NEW s, WellFormed(s), NEW o \in s
  PROVE  /\ o.kind \in {"table", "enum"} => o.parent = ""
         /\ o.kind \notin {"table", "enum"} => \E t \in Tables(s) : t.id = o.parent
         /\ o.kind \notin {"table", "enum"} => o.parent # ""
<1>1. o.kind \notin {"table", "enum"} => \E t \in Tables(s) : t.id = o.parent
  BY DEF WellFormed
<1>2. \A t \in Tables(s) : t.id # ""
  BY DEF WellFormed, Tables, Of
<1> QED
  BY <1>1, <1>2 DEF WellFormed

\* A table of the new snapshot has no name of a table that leaves.
LEMMA NewName ==
  ASSUME NEW before, NEW after, KeepsNames(before, after), NEW y \in Tables(after)
  PROVE  Avoids(y.name, before, after)
BY DEF KeepsNames, Avoids, Leaves

\* A statement that makes or changes something in a table of the new snapshot
\* calls the table by its name there.
LEMMA TableOfTarget ==
  ASSUME NEW before, NEW after, WellFormed(before), WellFormed(after),
         NEW op \in Diff(before, after), op.type # "remove",
         op.after.kind \notin {"table", "enum"}
  PROVE  \E y \in Tables(after) :
           /\ y.id = op.after.parent
           /\ TableName(op, Diff(before, after), Side(op, before, after)) = y.name
<1> DEFINE ops == Diff(before, after)
           own == {t \in ops : Inside(op, t)}
           parent == op.after.parent
<1>1. op.after \in after /\ Subject(op) = op.after /\ Side(op, before, after) = after
  BY Compared DEF Subject, Side
<1>2. parent # "" /\ \E y \in Tables(after) : y.id = parent
  BY <1>1, Holder
<1>3. PICK y \in Tables(after) : y.id = parent
  BY <1>2
<1>4. ASSUME NEW t \in own PROVE Subject(t) \in Tables(after) /\ Subject(t).id = parent
  <2>1. t \in ops /\ Subject(t).kind = "table" /\ Subject(t).id = parent
    BY <1>1 DEF Inside
  <2>2. t.type # "remove"
    <3> SUFFICES ASSUME t.type = "remove" PROVE FALSE
      OBVIOUS
    <3>1. t.before \in before /\ Matching(after, t.before) = {} /\ Subject(t) = t.before
      BY <2>1, Compared DEF Subject
    <3>2. t.before \in Tables(before)
      BY <3>1, <2>1 DEF Tables, Of
    <3>3. y \in Matching(after, t.before)
      <4>1. t.before.kind = "table" /\ t.before.parent = ""
        BY <3>2, TableFacts
      <4>2. t.before.id = y.id
        BY <1>3, <2>1, <3>1
      <4> QED
        BY <4>1, <4>2, TableById
    <3> QED
      BY <3>1, <3>3
  <2>3. t.after \in after /\ Subject(t) = t.after
    BY <2>1, <2>2, Compared DEF Subject
  <2> QED
    BY <2>1, <2>3 DEF Tables, Of
<1>5. CASE own # {}
  <2>1. (CHOOSE t \in own : TRUE) \in own
    BY <1>5
  <2>2. TableName(op, ops, after) = Subject(CHOOSE t \in own : TRUE).name
    BY <1>1, <1>2, <1>5 DEF TableName
  <2> HIDE DEF own
  <2> QED
    BY <2>1, <2>2, <1>4, <1>1
<1>6. CASE own = {}
  <2>1. TableName(op, ops, after) = (CHOOSE t \in Tables(after) : t.id = parent).name
    BY <1>1, <1>2, <1>6 DEF TableName
  <2>2. (CHOOSE t \in Tables(after) : t.id = parent) \in Tables(after)
        /\ (CHOOSE t \in Tables(after) : t.id = parent).id = parent
    BY <1>2
  <2> QED
    BY <2>1, <2>2, <1>1
<1> QED
  BY <1>5, <1>6

\* A statement that drops a column calls its table by the name it has in the database.
LEMMA TableOfColumn ==
  ASSUME NEW before, NEW after, WellFormed(before), WellFormed(after), KeepsNames(before, after),
         NEW op \in Diff(before, after), op.type = "remove", op.before.kind = "column"
  PROVE  \E x \in Tables(before) :
           /\ x.id = op.before.parent
           /\ TableName(op, Diff(before, after), Side(op, before, after)) = x.name
<1> DEFINE ops == Diff(before, after)
           own == {t \in ops : Inside(op, t)}
           parent == op.before.parent
<1>1. /\ op.before \in before /\ Subject(op) = op.before /\ Side(op, before, after) = before
      /\ Matching(after, op.before) = {}
  BY Compared DEF Subject, Side
<1>2. parent # "" /\ \E x \in Tables(before) : x.id = parent
  BY <1>1, Holder
<1>3. PICK x \in Tables(before) : x.id = parent
  BY <1>2
<1>4. ASSUME NEW t \in own PROVE Subject(t).name = x.name
  <2>1. t \in ops /\ Subject(t).kind = "table" /\ Subject(t).id = parent
    BY <1>1 DEF Inside
  <2>2. CASE t.type = "remove"
    <3>1. Subject(t) = t.before /\ t.before \in before
      BY <2>1, <2>2, Compared DEF Subject
    <3>2. t.before \in Tables(before)
      BY <2>1, <3>1 DEF Tables, Of
    <3> QED
      BY <2>1, <3>1, <3>2, <1>3, OneTable
  <2>3. CASE t.type # "remove"
    <3>1. Subject(t) = t.after /\ t.after \in after
      BY <2>1, <2>3, Compared DEF Subject
    <3>2. t.after \in Tables(after)
      BY <2>1, <3>1 DEF Tables, Of
    <3>3. t.after \in Matching(after, x)
      <4>1. x.kind = "table" /\ x.parent = "" /\ x.id = t.after.id
        BY <3>1, <3>2, <2>1, <1>3, TableFacts
      <4> QED
        BY <4>1, <3>2, TableById
    <3>4. op.before \in Of(before, "column")
      BY <1>1 DEF Of
    <3> QED
      BY <1>1, <1>3, <3>1, <3>3, <3>4 DEF KeepsNames
  <2> QED
    BY <2>2, <2>3
<1>5. CASE own # {}
  <2>1. (CHOOSE t \in own : TRUE) \in own
    BY <1>5
  <2>2. TableName(op, ops, before) = Subject(CHOOSE t \in own : TRUE).name
    BY <1>1, <1>2, <1>5 DEF TableName
  <2> HIDE DEF own
  <2> QED
    BY <2>1, <2>2, <1>1, <1>3, <1>4
<1>6. CASE own = {}
  <2>1. TableName(op, ops, before) = (CHOOSE t \in Tables(before) : t.id = parent).name
    BY <1>1, <1>2, <1>6 DEF TableName
  <2>2. (CHOOSE t \in Tables(before) : t.id = parent) \in Tables(before)
        /\ (CHOOSE t \in Tables(before) : t.id = parent).id = parent
    BY <1>2
  <2> QED
    BY <2>1, <2>2, <1>1
<1> QED
  BY <1>5, <1>6

\* What a statement makes carries the object's kind and lists, in the table it names.
LEMMA Made ==
  ASSUME NEW o, IsObject(o), NEW table, NEW s
  PROVE  LET p == Physical(o, table, s) IN
         IsObject(p) /\ p.kind = o.kind /\ p.parent = table /\ p.ord = 0 /\ (o.over = {} => p.over = {})
<1> DEFINE over == {NameOf(s, "column", o.parent, c) : c \in o.over}
           refs == {NameOf(s, "table", "", t) : t \in o.refs}
           keys == UNION {{NameOf(s, "column", t, c) : c \in o.keys} : t \in o.refs}
<1>1. Physical(o, table, s) =
        [o EXCEPT !.id = o.name, !.parent = table, !.ord = 0, !.over = over,
                  !.refs = refs, !.keys = keys]
  BY DEF Physical, IsObject
<1>2. o.over = {} => over = {}
  OBVIOUS
<1> HIDE DEF over, refs, keys
<1> QED
  BY <1>1, <1>2 DEF IsObject

-----------------------------------------------------------------------------
(* What a phase takes from the database.                                    *)

\* A transaction of one statement that commits ran it.
LEMMA OneRuns ==
  ASSUME NEW s, NEW a, RunAll(s, <<a>>).ok
  PROVE  Possible(s, a) /\ RunAll(s, <<a>>).live = After(s, a)
<1>1. RunAll(s, <<a>>) = Ran(s, Started(s), a)
  BY RunOne
<1>2. Started(s).ok = TRUE /\ Started(s).live = s
  BY DEF Started
<1>3. Ran(s, Started(s), a) = IF Possible(s, a) THEN [ok |-> TRUE, live |-> After(s, a)]
                              ELSE [ok |-> FALSE, live |-> s]
  BY <1>2 DEF Ran
<1> QED
  BY <1>1, <1>3

\* A transaction of two statements that commits ran both in turn.
LEMMA TwoRun ==
  ASSUME NEW s, NEW a, NEW b, RunAll(s, <<a, b>>).ok
  PROVE  /\ Possible(s, a) /\ Possible(After(s, a), b)
         /\ RunAll(s, <<a, b>>).live = After(After(s, a), b)
<1>1. RunAll(s, <<a, b>>) = Ran(s, Ran(s, Started(s), a), b)
  BY RunTwo
<1>2. Ran(s, Ran(s, Started(s), a), b).ok => Ran(s, Started(s), a).ok
  BY DEF Ran
<1>3. Possible(s, a) /\ Ran(s, Started(s), a) = [ok |-> TRUE, live |-> After(s, a)]
  BY <1>1, <1>2 DEF Ran, Started
<1> QED
  BY <1>1, <1>3 DEF Ran

\* One statement and then another are a list of two.
LEMMA Paired == \A x, y : <<x>> \o <<y>> = <<x, y>>
<1> SUFFICES ASSUME NEW x, NEW y PROVE <<x>> \o <<y>> = <<x, y>>
  OBVIOUS
<1> DEFINE z == <<x>> \o <<y>>
<1>1. z \in Seq({x, y}) /\ Len(z) = 2 /\ z[1] = x /\ z[2] = y
  OBVIOUS
<1>2. <<x, y>> \in Seq({x, y}) /\ Len(<<x, y>>) = 2
  OBVIOUS
<1> HIDE DEF z
<1>3. \A i \in 1 .. 2 : z[i] = <<x, y>>[i]
  BY <1>1
<1>4. DOMAIN z = 1 .. 2 /\ z = [i \in 1 .. 2 |-> z[i]]
  BY <1>1
<1>5. <<x, y>> = [i \in 1 .. 2 |-> <<x, y>>[i]]
  OBVIOUS
<1>6. z = <<x, y>>
  BY <1>3, <1>4, <1>5
<1> QED
  BY <1>6 DEF z

\* Nothing is left of column c, nor of a renaming of it or of its table.
Lost(c, s) == ~\E d \in Of(s, "column") : d.ord = c.ord /\ (d.name = c.name \/ d.parent = c.parent)

\* Operation m removes column c, which the new snapshot does not have.
Takes(m, c, before, after) ==
  /\ m.type = "remove" /\ m.before \in before /\ m.before.kind = "column"
  /\ m.before.name = c.name /\ Matching(after, m.before) = {}
  /\ \E x \in Tables(before) : x.id = m.before.parent /\ x.name = c.parent

\* Making something.
LEMMA CreationKeeps ==
  ASSUME NEW s, NEW before, NEW after, WellFormed(before), WellFormed(after),
         KeepsNames(before, after), Sound(s, before, after),
         NEW op \in Diff(before, after), op.type # "remove",
         NEW table, table = TableName(op, Diff(before, after), Side(op, before, after)),
         Possible(s, Creation(op, table, after))
  PROVE  LET t == After(s, Creation(op, table, after))
         IN Sound(t, before, after) /\ Of(s, "column") \subseteq Of(t, "column")
<1> DEFINE o == Physical(op.after, table, after)
           with(c) == [Physical(c, op.after.name, after) EXCEPT !.ord = Place(c, after)]
           columns == IF op.after.kind # "table" THEN {}
                      ELSE {with(c) : c \in ColumnsOf(after, op.after.id)}
           st == Creation(op, table, after)
           t == After(s, st)
<1>1. op.after \in after /\ IsObject(op.after)
  BY Compared DEF WellFormed
<1>2. op.after.kind = "column" => op.after.over = {}
  BY <1>1 DEF WellFormed
<1>3. IsObject(o) /\ o.kind = op.after.kind /\ o.parent = table /\ (o.kind = "column" => o.over = {})
  BY <1>1, <1>2, Made
<1>4. ASSUME op.after.kind = "column" PROVE \E y \in Tables(after) : table = y.name
  <2>1. op.after.kind \notin {"table", "enum"}
    BY <1>4
  <2>2. \E y \in Tables(after) :
          TableName(op, Diff(before, after), Side(op, before, after)) = y.name
    BY <2>1, TableOfTarget
  <2> QED
    BY <2>2
<1>5. op.after.kind = "column" => table # "" /\ Avoids(table, before, after)
  BY <1>4, NewName, TableFacts
<1>6. Harmless(o, before, after) /\ (o.kind = "column" => o.parent # "")
  BY <1>3, <1>5 DEF Harmless
<1>7. ASSUME NEW d \in columns PROVE Harmless(d, before, after)
  <2>1. op.after.kind = "table"
    BY <1>7
  <2>2. PICK c \in ColumnsOf(after, op.after.id) : d = with(c)
    BY <1>7, <2>1
  <2>3. IsObject(c) /\ c.kind = "column" /\ c.over = {}
    BY DEF ColumnsOf, Of, WellFormed
  <2>4. /\ IsObject(d) /\ d.kind = "column" /\ d.over = {} /\ d.parent = op.after.name
    <3> DEFINE p == Physical(c, op.after.name, after)
    <3>1. IsObject(p) /\ p.kind = "column" /\ p.over = {} /\ p.parent = op.after.name
      BY <2>3, Made
    <3> HIDE DEF p
    <3>2. d = [p EXCEPT !.ord = Place(c, after)]
      BY <2>2 DEF p
    <3> QED
      BY <3>1, <3>2, Numbered
  <2>5. op.after \in Tables(after)
    BY <1>1, <2>1 DEF Tables, Of
  <2> QED
    BY <2>4, <2>5, NewName DEF Harmless
<1>8. st = CreateStatement(o, columns)
  BY DEF Creation
<1>9. CanCreate(s, o, columns) /\ t = AfterCreate(s, o, columns)
  <2> HIDE DEF o, columns
  <2>1. st.do = "create" /\ st.object = o /\ st.columns = columns
    BY <1>8 DEF CreateStatement
  <2> HIDE DEF st
  <2>2. Possible(s, st)
    BY DEF st
  <2> QED
    BY <2>1, <2>2 DEF Possible, After
<1>10. Sound(t, before, after) /\ Of(s, "column") \subseteq t
  <2> HIDE DEF o, columns, t
  <2> QED BY <1>6, <1>7, <1>9, Creating
<1> QED
  BY <1>10 DEF Of

\* Removing something.
LEMMA RemovalTakes ==
  ASSUME NEW s, NEW before, NEW after, WellFormed(before), WellFormed(after),
         KeepsNames(before, after), Sound(s, before, after),
         NEW op \in Diff(before, after), op.type = "remove"
  PROVE  LET table == TableName(op, Diff(before, after), Side(op, before, after))
             t == After(s, DropStatement(op.before.kind, table, op.before.name))
         IN /\ Sound(t, before, after)
            /\ \A c \in Of(s, "column") : c \notin t =>
                 \E m \in Members(op, Diff(before, after)) : Takes(m, c, before, after)
<1> DEFINE ops == Diff(before, after)
           table == TableName(op, ops, Side(op, before, after))
           t == After(s, DropStatement(op.before.kind, table, op.before.name))
<1>1. op.before \in before /\ Matching(after, op.before) = {}
  BY Compared
<1>2. Sound(t, before, after)
  BY Dropping
<1>3. ASSUME NEW c \in Of(s, "column"), c \notin t
      PROVE  \E m \in Members(op, ops) : Takes(m, c, before, after)
  <2>1. \/ op.before.kind = "column" /\ c.name = op.before.name /\ c.parent = table
        \/ op.before.kind = "table" /\ c.parent = op.before.name
    <3> HIDE DEF table
    <3> QED BY <1>3, Dropping
  <2>2. CASE op.before.kind = "column"
    <3>1. op \in Members(op, ops)
      BY DEF Members
    <3>2. Takes(op, c, before, after)
      BY <1>1, <2>1, <2>2, TableOfColumn DEF Takes
    <3> QED
      BY <3>1, <3>2
  <2>3. CASE op.before.kind = "table"
    <3>1. op.before \in Tables(before) /\ c.parent = op.before.name
      BY <1>1, <2>1, <2>3 DEF Tables, Of
    <3>2. PICK b \in Of(before, "column") : b.parent = op.before.id /\ b.name = c.name
      BY <3>1, <1>1 DEF Sound, OnlyKnown, Leaves
    <3>3. b \in before /\ b.kind = "column"
      BY DEF Of
    <3>4. Matching(after, b) = {}
      <4> SUFFICES ASSUME NEW a \in Matching(after, b) PROVE FALSE
        OBVIOUS
      <4>1. a \in after /\ a.kind = "column" /\ a.parent = op.before.id
        BY <3>2, <3>3, SameKey
      <4>2. PICK y \in Tables(after) : y.id = op.before.id
        BY <4>1, Holder
      <4>3. y \in Matching(after, op.before)
        BY <4>2, <3>1, <2>3, TableFacts, TableById
      <4> QED
        BY <4>3, <1>1
    <3> DEFINE m == Operation("remove", b, Nothing)
    <3>5. m \in ops
      BY <3>3, <3>4 DEF Diff
    <3>6. m.type = "remove" /\ m.before = b /\ Subject(m) = b
      BY DEF Operation, Subject
    <3>7. op \in Containing(m, ops)
      BY <3>2, <3>6, <2>3 DEF Containing, Inside, Subject
    <3>8. m \in Members(op, ops)
      BY <3>5, <3>7 DEF Members
    <3>9. Takes(m, c, before, after)
      BY <3>1, <3>2, <3>3, <3>4, <3>6 DEF Takes
    <3> QED
      BY <3>8, <3>9
  <2> QED
    BY <2>1, <2>2, <2>3
<1> QED
  BY <1>2, <1>3

\* A phase.
LEMMA PhaseTakes ==
  ASSUME NEW s, NEW before, NEW after, WellFormed(before), WellFormed(after),
         KeepsNames(before, after), Sound(s, before, after),
         NEW op \in Diff(before, after), CanRender(op),
         RunAll(s, RenderOperation(op, Diff(before, after), before, after)).ok
  PROVE  LET t == RunAll(s, RenderOperation(op, Diff(before, after), before, after)).live IN
         /\ Sound(t, before, after)
         /\ \A c \in Of(s, "column") : Lost(c, t) =>
              \E m \in Members(op, Diff(before, after)) : Takes(m, c, before, after)
<1> DEFINE ops == Diff(before, after)
           table == TableName(op, ops, Side(op, before, after))
           sts == RenderOperation(op, ops, before, after)
           t == RunAll(s, sts).live
<1>1. CASE Replaced(op)
  <2> DEFINE drop == DropStatement("index", table, op.after.name)
             mid == After(s, drop)
             make == Creation(op, table, after)
  <2>1. op.type # "remove" /\ op.type # "add" /\ sts = <<drop, make>>
    BY <1>1 DEF RenderOperation, Replacement, Replaced, Carries
  <2>2. Possible(mid, make) /\ t = After(mid, make)
    <3> HIDE DEF drop, make
    <3> QED BY <2>1, TwoRun
  <2>3. Sound(mid, before, after) /\ \A c \in Of(s, "column") : c \in mid
    <3> HIDE DEF table
    <3> QED BY Dropping
  <2>4. Sound(t, before, after) /\ Of(mid, "column") \subseteq Of(t, "column")
    <3> HIDE DEF mid
    <3> QED BY <2>1, <2>2, <2>3, CreationKeeps
  <2>5. ASSUME NEW c \in Of(s, "column") PROVE ~Lost(c, t)
    BY <2>3, <2>4 DEF Lost, Of
  <2> QED
    BY <2>4, <2>5
<1>2. CASE op.type = "add"
  <2> DEFINE make == Creation(op, table, after)
  <2>1. sts = <<make>>
    BY <1>2 DEF RenderOperation, Replaced, Carries
  <2>2. Possible(s, make) /\ t = After(s, make)
    <3> HIDE DEF make
    <3> QED BY <2>1, OneRuns
  <2>3. Sound(t, before, after) /\ Of(s, "column") \subseteq Of(t, "column")
    BY <1>2, <2>2, CreationKeeps
  <2>4. ASSUME NEW c \in Of(s, "column") PROVE ~Lost(c, t)
    BY <2>3 DEF Lost
  <2> QED
    BY <2>3, <2>4
<1>3. CASE op.type = "remove"
  <2> DEFINE drop == DropStatement(op.before.kind, table, op.before.name)
  <2>1. sts = <<drop>>
    BY <1>3 DEF RenderOperation, Replaced, Carries
  <2>2. t = After(s, drop)
    <3> HIDE DEF drop
    <3> QED BY <2>1, OneRuns
  <2>3. /\ Sound(t, before, after)
        /\ \A c \in Of(s, "column") : c \notin t =>
             \E m \in Members(op, ops) : Takes(m, c, before, after)
    BY <1>3, <2>2, RemovalTakes
  <2>4. ASSUME NEW c \in Of(s, "column"), Lost(c, t) PROVE c \notin t
    BY <2>4 DEF Lost, Of
  <2> QED
    BY <2>3, <2>4
<1>4. CASE op.type = "rename" /\ ~Replaced(op)
  <2> DEFINE rename == Renamed(op, table)
             alter == Altered(op, table)
             mid == After(s, rename)
             kind == op.before.kind
  <2>1. op.before \in before /\ op.after \in after /\ op.after.kind = kind
    BY <1>4, Compared, SameKey
  <2>2. kind = "table" => Avoids(op.after.name, before, after)
    BY <2>1, NewName DEF Tables, Of
  <2>3. kind = "column" => Avoids(table, before, after)
    BY <1>4, <2>1, TableOfTarget, NewName
  <2>4. /\ Sound(mid, before, after)
        /\ \A c \in Of(s, "column") : \E d \in Of(mid, "column") :
             /\ d.ord = c.ord
             /\ kind # "table" => d.parent = c.parent
             /\ kind # "column" => d.name = c.name
    <3> HIDE DEF table
    <3> QED BY <2>2, <2>3, Renames DEF Renamed
  <2>5. CASE Carries(op)
    <3>1. sts = <<rename, alter>>
      <4>1. sts = <<rename>> \o <<alter>>
        <5>1. sts = <<rename>> \o (IF Carries(op) THEN <<alter>> ELSE << >>)
          <6> HIDE DEF rename, alter
          <6> QED BY <1>4 DEF RenderOperation, rename, alter
        <5> QED
          BY <5>1, <2>5
      <4> HIDE DEF rename, alter, sts
      <4> QED BY <4>1, Paired
    <3>2. t = After(mid, alter)
      <4> HIDE DEF rename, alter
      <4> QED BY <3>1, TwoRun DEF mid
    <3>3. kind = "column"
      BY <1>4, <2>5 DEF CanRender, Replaced
    <3>4. /\ Sound(t, before, after)
          /\ \A c \in Of(mid, "column") : \E d \in Of(t, "column") :
               d.ord = c.ord /\ d.parent = c.parent /\ d.name = c.name
      <4> HIDE DEF mid, table
      <4> QED BY <2>4, <3>2, Altering DEF Altered
    <3>5. ASSUME NEW c \in Of(s, "column") PROVE ~Lost(c, t)
      <4> HIDE DEF mid, t
      <4>1. PICK d \in Of(mid, "column") : d.ord = c.ord /\ d.parent = c.parent
        BY <2>4, <3>3
      <4>2. PICK e \in Of(t, "column") : e.ord = d.ord /\ e.parent = d.parent
        BY <3>4
      <4> QED
        BY <4>1, <4>2 DEF Lost
    <3> QED
      BY <3>4, <3>5
  <2>6. CASE ~Carries(op)
    <3>1. sts = <<rename>>
      <4>1. sts = <<rename>> \o << >>
        BY <1>4, <2>6 DEF RenderOperation
      <4> HIDE DEF rename, sts
      <4> QED BY <4>1
    <3>2. t = mid
      <4> HIDE DEF rename
      <4> QED BY <3>1, OneRuns DEF mid
    <3>3. ASSUME NEW c \in Of(s, "column") PROVE ~Lost(c, t)
      <4> HIDE DEF mid, t
      <4> QED BY <2>4, <3>2 DEF Lost
    <3> QED
      BY <2>4, <3>2, <3>3
  <2> QED
    BY <2>5, <2>6
<1>5. CASE op.type = "change" /\ ~Replaced(op)
  <2> DEFINE alter == Altered(op, table)
  <2>1. sts = <<alter>>
    BY <1>5 DEF RenderOperation
  <2>2. t = After(s, alter)
    <3> HIDE DEF alter
    <3> QED BY <2>1, OneRuns
  <2>3. /\ Sound(t, before, after)
        /\ \A c \in Of(s, "column") : \E d \in Of(t, "column") :
             d.ord = c.ord /\ d.parent = c.parent /\ d.name = c.name
    <3> HIDE DEF table
    <3> QED BY <2>2, Altering DEF Altered
  <2>4. ASSUME NEW c \in Of(s, "column") PROVE ~Lost(c, t)
    BY <2>3 DEF Lost
  <2> QED
    BY <2>3, <2>4
<1>6. op.type \in {"rename", "change", "remove", "add"}
  BY Compared
<1> QED
  BY <1>1, <1>2, <1>3, <1>4, <1>5, <1>6

-----------------------------------------------------------------------------
(* The orders of a plan.                                                    *)

\* A set of numbers has a least one.
LEMMA Least ==
  ASSUME NEW T \in SUBSET Nat, T # {}
  PROVE  \E n \in T : \A m \in T : n <= m
<1>1. PICK n \in T : \A m \in T : ~(<<m, n>> \in OpToRel(<, Nat))
  BY NatLessThanWellFounded, WFMin
<1>2. \A m \in T : ~(m < n)
  BY <1>1 DEF OpToRel
<1> QED
  BY <1>2

\* What the orders begin with, worked out up to n.
BegunTo(n, begun, ops, edges) ==
  begun = [m \in 0 .. n |-> IF m = 0 THEN {<< >>} ELSE Further(begun[m - 1], ops, edges)]

\* The table of beginnings that Orders describes exists.
LEMMA BegunExists ==
  ASSUME NEW ops, NEW edges, NEW n \in Nat
  PROVE  \E begun : BegunTo(n, begun, ops, edges)
<1> DEFINE Missing == {m \in Nat : ~\E begun : BegunTo(m, begun, ops, edges)}
<1> SUFFICES ASSUME Missing # {} PROVE FALSE
  OBVIOUS
<1>1. PICK m \in Missing : \A k \in Missing : m <= k
  BY Least
<1>2. CASE m = 0
  <2> DEFINE first == [k \in 0 .. 0 |-> {<< >>}]
  <2>1. first = [k \in 0 .. 0 |-> IF k = 0 THEN {<< >>} ELSE Further(first[k - 1], ops, edges)]
    OBVIOUS
  <2> HIDE DEF first
  <2>2. BegunTo(0, first, ops, edges)
    BY <2>1 DEF BegunTo
  <2> QED
    BY <1>2, <2>2
<1>3. CASE m # 0
  <2>1. m - 1 \in Nat /\ m - 1 \notin Missing
    BY <1>1, <1>3
  <2>2. PICK less : BegunTo(m - 1, less, ops, edges)
    BY <2>1
  <2> DEFINE more == [k \in 0 .. m |-> IF k = m THEN Further(less[m - 1], ops, edges) ELSE less[k]]
  <2>3. ASSUME NEW k \in 0 .. m
        PROVE  more[k] = IF k = 0 THEN {<< >>} ELSE Further(more[k - 1], ops, edges)
    <3>1. CASE k = m
      <4>1. more[k] = Further(less[k - 1], ops, edges) /\ more[k - 1] = less[k - 1]
        BY <3>1, <1>3
      <4> QED
        BY <4>1, <3>1, <1>3
    <3>2. CASE k # m
      <4>1. k \in 0 .. m - 1 /\ more[k] = less[k]
        BY <3>2
      <4>2. k # 0 => more[k - 1] = less[k - 1]
        BY <3>2
      <4>3. less[k] = IF k = 0 THEN {<< >>} ELSE Further(less[k - 1], ops, edges)
        BY <2>2, <4>1 DEF BegunTo
      <4> HIDE DEF more
      <4> QED
        BY <4>1, <4>2, <4>3
    <3> QED
      BY <3>1, <3>2
  <2>4. DOMAIN more = 0 .. m /\ more = [k \in 0 .. m |-> more[k]]
    OBVIOUS
  <2> HIDE DEF more
  <2>5. BegunTo(m, more, ops, edges)
    BY <2>3, <2>4 DEF BegunTo
  <2> QED
    BY <2>5
<1> QED
  BY <1>2, <1>3

\* The first n operations of an order: no operation twice, each after all that it
\* depends on.
Begins(order, n, ops, edges) ==
  /\ order \in Seq(ops) /\ Len(order) = n
  /\ \A i, j \in 1 .. n : order[i] = order[j] => i = j
  /\ \A i \in 1 .. n : DependsOn(edges, order[i]) \subseteq {order[j] : j \in 1 .. i - 1}

\* Taking one more ready operation keeps a beginning in order.
LEMMA OneMore ==
  ASSUME NEW ops, NEW edges, NEW n \in Nat, NEW orders,
         \A order \in orders : Begins(order, n, ops, edges),
         NEW longer \in Further(orders, ops, edges)
  PROVE  Begins(longer, n + 1, ops, edges)
<1>1. PICK order \in orders :
        LET done == {order[i] : i \in DOMAIN order} IN
        longer \in {Append(order, op) : op \in {o \in ops \ done : DependsOn(edges, o) \subseteq done}}
  BY DEF Further
<1> DEFINE done == {order[i] : i \in DOMAIN order}
<1>2. PICK op \in ops \ done : longer = Append(order, op) /\ DependsOn(edges, op) \subseteq done
  BY <1>1
<1>3. order \in Seq(ops) /\ Len(order) = n /\ DOMAIN order = 1 .. n
  BY DEF Begins
<1>4. /\ longer \in Seq(ops) /\ Len(longer) = n + 1 /\ longer[n + 1] = op
      /\ \A i \in 1 .. n : longer[i] = order[i]
  BY <1>2, <1>3
<1>5. \A i \in 1 .. n : longer[i] # op
  BY <1>3, <1>4
<1>6. ASSUME NEW i \in 1 .. n + 1, NEW j \in 1 .. n + 1, longer[i] = longer[j] PROVE i = j
  <2>1. CASE i = n + 1 \/ j = n + 1
    BY <1>4, <1>5, <1>6, <2>1
  <2>2. CASE i \in 1 .. n /\ j \in 1 .. n
    BY <1>4, <1>6, <2>2 DEF Begins
  <2> QED
    BY <2>1, <2>2
<1>7. ASSUME NEW i \in 1 .. n + 1
      PROVE  DependsOn(edges, longer[i]) \subseteq {longer[j] : j \in 1 .. i - 1}
  <2>1. CASE i = n + 1
    <3>1. \A x \in done : \E j \in 1 .. i - 1 : x = longer[j]
      BY <1>3, <1>4, <2>1
    <3> HIDE DEF done
    <3> QED
      BY <1>2, <1>4, <2>1, <3>1
  <2>2. CASE i \in 1 .. n
    <3>1. DependsOn(edges, order[i]) \subseteq {order[j] : j \in 1 .. i - 1}
      BY <2>2 DEF Begins
    <3>2. \A j \in 1 .. i - 1 : longer[j] = order[j]
      BY <1>4, <2>2
    <3> QED
      BY <1>4, <2>2, <3>1, <3>2
  <2> QED
    BY <2>1, <2>2
<1> QED
  BY <1>4, <1>6, <1>7 DEF Begins

\* Every beginning in the table is one.
LEMMA BegunBegins ==
  ASSUME NEW ops, NEW edges, NEW c \in Nat, NEW begun, BegunTo(c, begun, ops, edges),
         NEW order \in begun[c]
  PROVE  Begins(order, c, ops, edges)
<1> DEFINE Wrong == {n \in 0 .. c : ~\A o \in begun[n] : Begins(o, n, ops, edges)}
<1> SUFFICES ASSUME Wrong # {} PROVE FALSE
  OBVIOUS
<1>0. Wrong \in SUBSET Nat
  OBVIOUS
<1>1. PICK n \in Wrong : \A m \in Wrong : n <= m
  <2> HIDE DEF Wrong
  <2> QED BY <1>0, Least
<1>2. n \in 0 .. c /\ begun[n] = IF n = 0 THEN {<< >>} ELSE Further(begun[n - 1], ops, edges)
  BY <1>1 DEF BegunTo
<1>3. CASE n = 0
  <2>1. Begins(<< >>, 0, ops, edges)
    BY DEF Begins
  <2> QED
    BY <1>1, <1>2, <1>3, <2>1
<1>4. CASE n # 0
  <2>1. PICK k \in Nat : n = k + 1
    BY <1>2, <1>4
  <2>2. k \in 0 .. c /\ k \notin Wrong
    BY <1>1, <1>2, <2>1
  <2>3. \A o \in begun[k] : Begins(o, k, ops, edges)
    BY <2>2
  <2>4. begun[n] = Further(begun[k], ops, edges)
    BY <1>2, <1>4, <2>1
  <2>5. \A o \in begun[n] : Begins(o, n, ops, edges)
    BY <2>1, <2>3, <2>4, OneMore
  <2> QED
    BY <2>5
<1> QED
  BY <1>3, <1>4

\* Every order lists each operation once, after all that it depends on.
LEMMA OrdersList ==
  ASSUME NEW ops, IsFiniteSet(ops), NEW edges, NEW order \in Orders(ops, edges)
  PROVE  /\ Begins(order, Cardinality(ops), ops, edges)
         /\ \A op \in ops : \E i \in 1 .. Cardinality(ops) : order[i] = op
<1> DEFINE c == Cardinality(ops)
           begun == CHOOSE f : f = [n \in 0 .. c |-> IF n = 0 THEN {<< >>}
                                                     ELSE Further(f[n - 1], ops, edges)]
<1>1. c \in Nat
  BY FS_CardinalityType
<1>2. BegunTo(c, begun, ops, edges)
  <2>1. \E f : f = [n \in 0 .. c |-> IF n = 0 THEN {<< >>} ELSE Further(f[n - 1], ops, edges)]
    <3> HIDE DEF c
    <3>1. PICK g : BegunTo(c, g, ops, edges)
      BY <1>1, BegunExists
    <3>2. g = [n \in 0 .. c |-> IF n = 0 THEN {<< >>} ELSE Further(g[n - 1], ops, edges)]
      BY <3>1 DEF BegunTo
    <3> QED
      BY <3>2
  <2>2. begun = [n \in 0 .. c |-> IF n = 0 THEN {<< >>} ELSE Further(begun[n - 1], ops, edges)]
    <3> HIDE DEF c
    <3> QED BY <2>1
  <2> HIDE DEF begun
  <2> QED
    BY <2>2 DEF BegunTo
<1>3. order \in begun[c]
  BY DEF Orders
<1>4. Begins(order, c, ops, edges)
  <2> HIDE DEF begun, c
  <2> QED BY <1>1, <1>2, <1>3, BegunBegins
<1>5. order \in Injection(1 .. c, ops)
  BY <1>4 DEF Begins, Injection, IsInjective
<1>6. IsFiniteSet(1 .. c) /\ Cardinality(1 .. c) = c
  BY <1>1, FS_Interval
<1>7. order \in Surjection(1 .. c, ops)
  BY <1>5, <1>6, FS_Injection
<1> QED
  BY <1>4, <1>7 DEF Surjection

-----------------------------------------------------------------------------
(* Its operations.                                                          *)

\* An operation is what its parts say.
LEMMA Operations ==
  ASSUME NEW before, NEW after, NEW op \in Diff(before, after)
  PROVE  /\ op = Operation(op.type, op.before, op.after)
         /\ op.type \in {"rename", "change", "remove", "add"}
         /\ op.type \in {"rename", "change"} => op.before \in before /\ op.after \in after
         /\ op.type = "remove" => op.before \in before /\ op.after = Nothing
         /\ op.type = "add" => op.after \in after /\ op.before = Nothing
<1> DEFINE matched == UNION {UNION {OperationForMatch(b, a) : a \in Matching(after, b)} : b \in before}
           removals == {Operation("remove", b, Nothing) : b \in {o \in before : Matching(after, o) = {}}}
           additions == {Operation("add", Nothing, a) : a \in {o \in after : Matching(before, o) = {}}}
<1>0. Diff(before, after) = matched \cup removals \cup additions
  BY DEF Diff
<1>1. CASE op \in matched
  <2>1. PICK b \in before : op \in UNION {OperationForMatch(b, a) : a \in Matching(after, b)}
    BY <1>1
  <2>2. PICK a \in Matching(after, b) : op \in OperationForMatch(b, a)
    BY <2>1
  <2>3. op = Operation("rename", b, a) \/ op = Operation("change", b, a)
    BY <2>2 DEF OperationForMatch
  <2>4. a \in after
    BY DEF Matching
  <2> QED
    BY <2>3, <2>4 DEF Operation
<1>2. CASE op \in removals
  BY <1>2 DEF Operation
<1>3. CASE op \in additions
  BY <1>3 DEF Operation
<1> HIDE DEF matched, removals, additions
<1> QED
  BY <1>0, <1>1, <1>2, <1>3

\* A plan has finitely many operations.
LEMMA FinitePlan ==
  ASSUME NEW before, NEW after, IsFiniteSet(before), IsFiniteSet(after)
  PROVE  IsFiniteSet(Diff(before, after))
<1> DEFINE kinds == {"rename", "change", "remove", "add"}
           olds == before \cup {Nothing}
           news == after \cup {Nothing}
           all == kinds \X (olds \X news)
           made == {Operation(x[1], x[2][1], x[2][2]) : x \in all}
<1>1. IsFiniteSet(kinds)
  <2>1. kinds = (({} \cup {"rename"}) \cup {"change"}) \cup {"remove"} \cup {"add"}
    OBVIOUS
  <2> HIDE DEF kinds
  <2> QED
    BY <2>1, FS_EmptySet, FS_AddElement
<1>2. IsFiniteSet(olds) /\ IsFiniteSet(news)
  BY FS_AddElement
<1>3. IsFiniteSet(all)
  <2> HIDE DEF kinds, olds, news
  <2> QED BY <1>1, <1>2, FS_Product
<1>4. IsFiniteSet(made)
  <2> DEFINE f == [x \in all |-> Operation(x[1], x[2][1], x[2][2])]
  <2> HIDE DEF all
  <2>1. f \in Surjection(all, made)
    BY DEF Surjection
  <2> QED
    BY <1>3, <2>1, FS_Surjection
<1>5. ASSUME NEW op \in Diff(before, after) PROVE op \in made
  <2> DEFINE x == <<op.type, <<op.before, op.after>>>>
  <2>1. op.type \in kinds /\ op.before \in olds /\ op.after \in news
        /\ op = Operation(op.type, op.before, op.after)
    BY Operations DEF Operation
  <2>2. x \in all /\ op = Operation(x[1], x[2][1], x[2][2])
    BY <2>1
  <2> HIDE DEF x, all
  <2> QED
    BY <2>2
<1> HIDE DEF made
<1>6. Diff(before, after) \in SUBSET made
  BY <1>5
<1> QED
  BY <1>4, <1>6, FS_Subset

-----------------------------------------------------------------------------
(* The groups of an order.                                                  *)

\* An operation is in the phase of one table at most, which is in no other's.
LEMMA OneContains ==
  ASSUME NEW before, NEW after, WellFormed(before), WellFormed(after),
         NEW op \in Diff(before, after),
         NEW t \in Containing(op, Diff(before, after))
  PROVE  /\ t \in Diff(before, after) /\ Containing(t, Diff(before, after)) = {}
         /\ \A u \in Containing(op, Diff(before, after)) : u = t
<1> DEFINE ops == Diff(before, after)
<1>1. ASSUME NEW u \in Containing(op, ops)
      PROVE  /\ u \in ops /\ u.type = op.type /\ u.type \in {"remove", "add"}
             /\ Subject(u).kind = "table" /\ Subject(u).id = Subject(op).parent
             /\ u.type = "remove" => Subject(u) \in Tables(before) /\ u = Operation("remove", Subject(u), Nothing)
             /\ u.type = "add" => Subject(u) \in Tables(after) /\ u = Operation("add", Nothing, Subject(u))
  <2>1. /\ u \in ops /\ u.type = op.type /\ u.type \in {"remove", "add"}
        /\ Subject(u).kind = "table" /\ Subject(u).id = Subject(op).parent
    BY DEF Containing, Inside
  <2>2. /\ u.type = "remove" => u.before \in before /\ u.after = Nothing /\ Subject(u) = u.before
        /\ u.type = "add" => u.after \in after /\ u.before = Nothing /\ Subject(u) = u.after
        /\ u = Operation(u.type, u.before, u.after)
    BY <2>1, Operations DEF Subject
  <2> QED
    BY <2>1, <2>2 DEF Tables, Of
<1>2. ASSUME NEW u \in Containing(op, ops) PROVE u = t
  <2>1. CASE op.type = "remove"
    BY <2>1, <1>1, <1>2, OneTable
  <2>2. CASE op.type = "add"
    BY <2>2, <1>1, <1>2, OneTable
  <2> QED
    BY <2>1, <2>2, <1>1
<1>3. Containing(t, ops) = {}
  <2> SUFFICES ASSUME NEW u \in Containing(t, ops) PROVE FALSE
    OBVIOUS
  <2>1. /\ u \in ops /\ Subject(u).id = Subject(t).parent /\ Subject(u).kind = "table" /\ u.type = t.type
    BY DEF Containing, Inside
  <2>2. Subject(t).parent = ""
    BY <1>1, TableFacts
  <2>3. Subject(u).id # ""
    <3>1. Subject(u) \in before \/ Subject(u) \in after
      BY <1>1, <2>1, Operations DEF Subject
    <3> QED
      BY <3>1 DEF WellFormed
  <2> QED
    BY <2>1, <2>2, <2>3
<1> QED
  BY <1>1, <1>2, <1>3

\* The places of an order whose operation begins a phase.
Roots(order, ops) == {i \in DOMAIN order : Containing(order[i], ops) = {}}

\* Every operation is in the group of one of them, and of one only.
LEMMA OneGroup ==
  ASSUME NEW before, NEW after, WellFormed(before), WellFormed(after),
         NEW order \in Orders(Diff(before, after), Edges(Diff(before, after), before, after)),
         NEW op \in Diff(before, after)
  PROVE  \E i \in Roots(order, Diff(before, after)) :
           /\ op \in Members(order[i], Diff(before, after))
           /\ \A j \in Roots(order, Diff(before, after)) :
                op \in Members(order[j], Diff(before, after)) => j = i
<1> DEFINE ops == Diff(before, after)
           edges == Edges(ops, before, after)
           n == Cardinality(ops)
           roots == Roots(order, ops)
<1>1. IsFiniteSet(ops)
  BY FinitePlan DEF WellFormed
<1>2. Begins(order, n, ops, edges) /\ \A x \in ops : \E i \in 1 .. n : order[i] = x
  BY <1>1, OrdersList
<1>3. DOMAIN order = 1 .. n /\ \A i, j \in 1 .. n : order[i] = order[j] => i = j
  BY <1>2 DEF Begins
<1>4. ASSUME NEW x \in ops, Containing(x, ops) = {} PROVE \E i \in roots : order[i] = x
  BY <1>2, <1>3, <1>4 DEF Roots
<1>5. CASE Containing(op, ops) = {}
  <2>1. PICK i \in roots : order[i] = op
    BY <1>4, <1>5
  <2>2. op \in Members(order[i], ops)
    BY <2>1 DEF Members
  <2>3. ASSUME NEW j \in roots, op \in Members(order[j], ops) PROVE j = i
    <3>1. order[j] = op
      BY <1>5, <2>3 DEF Members
    <3> QED
      BY <2>1, <3>1, <1>3 DEF Roots
  <2> QED
    BY <2>2, <2>3
<1>6. CASE Containing(op, ops) # {}
  <2>1. PICK t \in Containing(op, ops) : TRUE
    BY <1>6
  <2>2. /\ t \in ops /\ Containing(t, ops) = {}
        /\ \A u \in Containing(op, ops) : u = t
    BY OneContains
  <2>3. PICK i \in roots : order[i] = t
    BY <1>4, <2>2
  <2>4. op \in Members(order[i], ops)
    BY <2>3 DEF Members
  <2>5. ASSUME NEW j \in roots, op \in Members(order[j], ops) PROVE j = i
    <3>1. order[j] # op
      BY <1>6 DEF Roots
    <3>2. order[j] \in Containing(op, ops)
      BY <2>5, <3>1 DEF Members
    <3>3. order[j] = t
      BY <2>2, <3>2
    <3> QED
      BY <2>3, <3>3, <1>3 DEF Roots
  <2> QED
    BY <2>4, <2>5
<1> QED
  BY <1>5, <1>6

\* The group of an operation, by the place that begins it.
GroupOf(op, order, ops) == CHOOSE i \in Roots(order, ops) : op \in Members(order[i], ops)

\* The places of the groups: each once, after the groups its members depend on.
LEMMA GroupsPlaced ==
  ASSUME NEW ops, NEW order \in Seq(ops), NEW edges, NEW f \in Placements(order, ops, edges)
  PROVE  /\ Cardinality(Roots(order, ops)) \in Nat
         /\ f \in [1 .. Cardinality(Roots(order, ops)) -> Roots(order, ops)]
         /\ \A i \in Roots(order, ops) : \E k \in DOMAIN f : f[k] = i
         /\ \A j, k \in DOMAIN f : f[j] = f[k] => j = k
         /\ \A k \in DOMAIN f, e \in edges :
              GroupOf(e[2], order, ops) = f[k] =>
                \E j \in 1 .. k : f[j] = GroupOf(e[1], order, ops)
<1> DEFINE roots == {i \in DOMAIN order : Containing(order[i], ops) = {}}
           n == Cardinality(roots)
           group(op) == CHOOSE i \in roots : op \in Members(order[i], ops)
           waits == {<<group(e[2]), group(e[1])>> : e \in edges}
           free(done) == {i \in roots \ done : \A w \in waits : w[1] = i => w[2] \in done \cup {i}}
<1>1. f \in [1 .. n -> roots] /\ \A k \in DOMAIN f : f[k] \in free({f[j] : j \in 1 .. k - 1})
  BY DEF Placements
<1>2. IsFiniteSet(roots) /\ n \in Nat
  <2>1. roots \subseteq 1 .. Len(order) /\ Len(order) \in Nat
    OBVIOUS
  <2>2. IsFiniteSet(roots)
    BY <2>1, FS_Interval, FS_Subset
  <2> QED
    BY <2>2, FS_CardinalityType
<1>3. ASSUME NEW j \in 1 .. n, NEW k \in 1 .. n, f[j] = f[k] PROVE j = k
  <2>1. ASSUME NEW a \in 1 .. n, NEW b \in 1 .. n, a < b PROVE f[a] # f[b]
    <3>1. f[b] \notin {f[i] : i \in 1 .. b - 1}
      BY <1>1
    <3>2. a \in 1 .. b - 1
      BY <1>2, <2>1
    <3> HIDE DEF n
    <3> QED
      BY <3>1, <3>2
  <2>2. j < k \/ k < j \/ j = k
    <3> HIDE DEF n
    <3> QED BY <1>2
  <2> HIDE DEF n
  <2> QED
    BY <1>3, <2>1, <2>2
<1>4. \A i \in roots : \E k \in 1 .. n : f[k] = i
  <2> HIDE DEF roots
  <2>1. f \in Injection(1 .. n, roots)
    BY <1>1, <1>3 DEF Injection, IsInjective
  <2>2. Cardinality(1 .. n) = n
    BY <1>2, FS_Interval
  <2>3. f \in Surjection(1 .. n, roots)
    BY <2>1, <2>2, <1>2, FS_Injection
  <2> QED
    BY <2>3 DEF Surjection
<1>5. ASSUME NEW k \in 1 .. n, NEW e \in edges, group(e[2]) = f[k]
      PROVE  \E j \in 1 .. k : f[j] = group(e[1])
  <2> DEFINE w == <<group(e[2]), group(e[1])>>
  <2>1. w \in waits
    OBVIOUS
  <2>2. f[k] \in free({f[j] : j \in 1 .. k - 1})
    BY <1>1
  <2>3. w[1] = f[k] => w[2] \in {f[j] : j \in 1 .. k - 1} \cup {f[k]}
    <3> HIDE DEF waits, w, group, n
    <3> QED BY <2>1, <2>2
  <2>4. w[1] = group(e[2]) /\ w[2] = group(e[1])
    OBVIOUS
  <2>5. w[2] \in {f[j] : j \in 1 .. k - 1} \cup {f[k]}
    <3> HIDE DEF w, group
    <3> QED BY <2>3, <2>4, <1>5
  <2> HIDE DEF w, group, roots
  <2> QED
    BY <2>4, <2>5, <1>2
<1>6. roots = Roots(order, ops) /\ DOMAIN f = 1 .. n
  BY <1>1 DEF Roots
<1>7. \A x : group(x) = GroupOf(x, order, ops)
  BY DEF GroupOf, Roots
<1>8. \A k \in 1 .. n, e \in edges :
        GroupOf(e[2], order, ops) = f[k] => \E j \in 1 .. k : f[j] = GroupOf(e[1], order, ops)
  <2> HIDE DEF group, n
  <2> QED BY <1>5, <1>7
<1> HIDE DEF group, roots
<1>9. n = Cardinality(Roots(order, ops))
  BY <1>6
<1> HIDE DEF n
<1> QED
  BY <1>1, <1>2, <1>3, <1>4, <1>6, <1>8, <1>9

-----------------------------------------------------------------------------
(* Programs.                                                                *)

\* Every operation of a plan is in one phase of the program, and in one only.
InOnePhase(phases, ops) ==
  /\ \A k \in DOMAIN phases : phases[k].members \subseteq ops
  /\ \A op \in ops : \E k \in DOMAIN phases :
       /\ op \in phases[k].members
       /\ \A j \in DOMAIN phases : op \in phases[j].members => j = k

\* An operation is never in an earlier phase than one it depends on.
AfterWhatTheyNeed(phases, edges) ==
  \A e \in edges, j, k \in DOMAIN phases :
    e[1] \in phases[j].members /\ e[2] \in phases[k].members => j <= k

\* An edge joins operations of the plan.
LEMMA EdgesJoin ==
  ASSUME NEW ops, NEW before, NEW after, NEW e \in Edges(ops, before, after)
  PROVE  e[1] \in ops /\ e[2] \in ops
<1> DEFINE pairs == {q \in ops \X ops : q[1] # q[2]}
<1>1. PICK p \in pairs : e \in EdgesOf(p[1], p[2], before, after)
  BY DEF Edges
<1>2. p[1] \in ops /\ p[2] \in ops
  OBVIOUS
<1>3. e[1] \in {p[1], p[2]} /\ e[2] \in {p[1], p[2]}
  BY <1>1 DEF EdgesOf, When
<1> QED
  BY <1>2, <1>3

\* A program is an order of the plan, its groups placed.
LEMMA OneCompiled ==
  ASSUME NEW before, NEW after, WellFormed(before), WellFormed(after),
         NEW program \in Programs(before, after)
  PROVE  \E order \in Orders(Diff(before, after), Edges(Diff(before, after), before, after)) :
         \E f \in Placements(order, Diff(before, after), Edges(Diff(before, after), before, after)) :
           /\ DOMAIN program.phases = DOMAIN f
           /\ \A k \in DOMAIN f : program.phases[k].members = Members(order[f[k]], Diff(before, after))
           /\ program.added = AddedColumns(order, before)
<1> DEFINE ops == Diff(before, after)
           edges == Edges(ops, before, after)
<1>1. PICK order \in Orders(ops, edges) : program \in Compile(order, ops, edges, before, after)
  <2> HIDE DEF ops, edges
  <2>1. Programs(before, after) =
          IF \E op \in ops : ~CanRender(op) THEN {}
          ELSE UNION {Compile(order, ops, edges, before, after) : order \in Orders(ops, edges)}
    BY DEF Programs, ops, edges
  <2> QED
    BY <2>1
<1>2. PICK f \in Placements(order, ops, edges) :
        program = [phases |-> [k \in DOMAIN f |-> Phase(order[f[k]], ops, before, after)],
                   added |-> AddedColumns(order, before)]
  <2> HIDE DEF ops, edges
  <2> QED BY <1>1 DEF Compile
<1>3. /\ DOMAIN program.phases = DOMAIN f
      /\ \A k \in DOMAIN f : program.phases[k].members = Members(order[f[k]], ops)
      /\ program.added = AddedColumns(order, before)
  <2> HIDE DEF ops, edges
  <2> QED BY <1>2 DEF Phase
<1> QED
  BY <1>3

\* Whatever two snapshots a migration is created from and whatever order the planner
\* picks: every operation is in the program, in one phase only, and in no earlier
\* phase than an operation it depends on (plan.ts, program.ts).
THEOREM ProgramsKeepThePlan ==
  ASSUME NEW before, NEW after, WellFormed(before), WellFormed(after),
         NEW program \in Programs(before, after)
  PROVE  /\ InOnePhase(program.phases, Diff(before, after))
         /\ AfterWhatTheyNeed(program.phases, Edges(Diff(before, after), before, after))
<1> DEFINE ops == Diff(before, after)
           edges == Edges(ops, before, after)
<1>0. PICK order \in Orders(ops, edges) : \E f \in Placements(order, ops, edges) :
        /\ DOMAIN program.phases = DOMAIN f
        /\ \A k \in DOMAIN f : program.phases[k].members = Members(order[f[k]], ops)
  BY OneCompiled
<1>1. PICK f \in Placements(order, ops, edges) :
        /\ DOMAIN program.phases = DOMAIN f
        /\ \A k \in DOMAIN f : program.phases[k].members = Members(order[f[k]], ops)
  BY <1>0
<1>2. order \in Seq(ops)
  <2> HIDE DEF ops, edges
  <2> QED BY DEF Orders
<1>3. /\ Cardinality(Roots(order, ops)) \in Nat
      /\ f \in [1 .. Cardinality(Roots(order, ops)) -> Roots(order, ops)]
      /\ \A i \in Roots(order, ops) : \E k \in DOMAIN f : f[k] = i
      /\ \A j, k \in DOMAIN f : f[j] = f[k] => j = k
      /\ \A k \in DOMAIN f, e \in edges :
           GroupOf(e[2], order, ops) = f[k] =>
             \E j \in 1 .. k : f[j] = GroupOf(e[1], order, ops)
  <2> HIDE DEF ops, edges
  <2> QED BY <1>1, <1>2, GroupsPlaced
<1>4. ASSUME NEW op \in ops
      PROVE  \E i \in Roots(order, ops) :
               /\ op \in Members(order[i], ops) /\ GroupOf(op, order, ops) = i
               /\ \A j \in Roots(order, ops) : op \in Members(order[j], ops) => j = i
  <2>1. PICK i \in Roots(order, ops) :
          /\ op \in Members(order[i], ops)
          /\ \A j \in Roots(order, ops) : op \in Members(order[j], ops) => j = i
    BY OneGroup
  <2> HIDE DEF ops
  <2>2. GroupOf(op, order, ops) = i
    BY <2>1 DEF GroupOf
  <2> QED
    BY <2>1, <2>2
<1>5. ASSUME NEW op \in ops, NEW k \in DOMAIN f, op \in program.phases[k].members
      PROVE  f[k] = GroupOf(op, order, ops)
  <2> HIDE DEF ops, edges
  <2> QED BY <1>1, <1>3, <1>4, <1>5
<1>6. InOnePhase(program.phases, ops)
  <2> HIDE DEF ops, edges
  <2>1. \A k \in DOMAIN f : program.phases[k].members \subseteq ops
    <3>1. ASSUME NEW k \in DOMAIN f PROVE order[f[k]] \in ops
      <4>1. f[k] \in DOMAIN order
        BY <1>3 DEF Roots
      <4> QED
        BY <1>2, <4>1
    <3> QED
      BY <1>1, <3>1 DEF Members
  <2>2. ASSUME NEW op \in ops
        PROVE  \E k \in DOMAIN f :
                 /\ op \in program.phases[k].members
                 /\ \A j \in DOMAIN f : op \in program.phases[j].members => j = k
    <3>1. PICK k \in DOMAIN f : f[k] = GroupOf(op, order, ops)
      BY <1>3, <1>4
    <3>2. op \in program.phases[k].members
      BY <1>1, <1>4, <3>1
    <3> QED
      BY <1>3, <1>5, <3>1, <3>2
  <2> QED
    BY <1>1, <2>1, <2>2 DEF InOnePhase
<1>7. AfterWhatTheyNeed(program.phases, edges)
  <2> SUFFICES ASSUME NEW e \in edges, NEW j \in DOMAIN f, NEW k \in DOMAIN f,
                      e[1] \in program.phases[j].members, e[2] \in program.phases[k].members
               PROVE  j <= k
    <3> HIDE DEF ops, edges
    <3> QED BY <1>1 DEF AfterWhatTheyNeed
  <2>1. e[1] \in ops /\ e[2] \in ops
    BY EdgesJoin
  <2> HIDE DEF ops, edges
  <2>2. f[j] = GroupOf(e[1], order, ops) /\ f[k] = GroupOf(e[2], order, ops)
    BY <1>5, <2>1
  <2>3. PICK i \in 1 .. k : f[i] = f[j]
    BY <1>3, <2>2
  <2>4. DOMAIN f = 1 .. Cardinality(Roots(order, ops)) /\ i \in DOMAIN f
    BY <1>3
  <2>5. i = j
    BY <1>3, <2>3, <2>4
  <2> QED
    BY <1>3, <2>3, <2>4, <2>5
<1> QED
  BY <1>6, <1>7

-----------------------------------------------------------------------------
(* Ordinals.                                                                *)

\* Two snapshots with the same objects, but for what hangs on them.
Alike(o, q) == o.kind = q.kind /\ o.parent = q.parent /\ o.id = q.id /\ o.name = q.name

Like(s, t) == (\A o \in s : \E q \in t : Alike(o, q)) /\ (\A q \in t : \E o \in s : Alike(o, q))

\* The columns of a snapshot are numbered, no two of a table alike.
OrdinalsDiffer(s) ==
  /\ IsFiniteSet(s) /\ \A c \in Of(s, "column") : c.ord \in Int
  /\ \A c, d \in Of(s, "column") : c.parent = d.parent /\ c.ord = d.ord => c = d

\* A largest member.
HasMax(T) == \E m \in T : \A x \in T : m >= x

\* A finite set of numbers has a largest one.
LEMMA MaxBounds ==
  ASSUME NEW T \in SUBSET Int, IsFiniteSet(T), T # {}
  PROVE  Max(T) \in T /\ \A x \in T : x <= Max(T)
<1> DEFINE Bad == {n \in Nat : \E S \in SUBSET Int :
                     IsFiniteSet(S) /\ S # {} /\ Cardinality(S) = n /\ ~HasMax(S)}
<1>1. HasMax(T)
  <2> SUFFICES ASSUME ~HasMax(T) PROVE FALSE
    OBVIOUS
  <2>1. Cardinality(T) \in Bad
    BY FS_CardinalityType
  <2>2. PICK n \in Bad : \A m \in Bad : n <= m
    <3>1. Bad \in SUBSET Nat /\ Bad # {}
      BY <2>1
    <3> HIDE DEF Bad
    <3> QED BY <3>1, Least
  <2>3. PICK S \in SUBSET Int : IsFiniteSet(S) /\ S # {} /\ Cardinality(S) = n /\ ~HasMax(S)
    BY <2>2
  <2>4. PICK x \in S : TRUE
    BY <2>3
  <2>5. IsFiniteSet(S \ {x}) /\ Cardinality(S \ {x}) = n - 1
    BY <2>3, <2>4, FS_RemoveElement
  <2>6. n - 1 \notin Bad
    BY <2>2
  <2>7. CASE S \ {x} = {}
    <3>1. \A y \in S : x >= y
      BY <2>4, <2>7
    <3> QED
      BY <2>3, <2>4, <3>1 DEF HasMax
  <2>8. CASE S \ {x} # {}
    <3>1. n - 1 \in Nat
      BY <2>5, FS_CardinalityType
    <3>2. HasMax(S \ {x})
      BY <2>5, <2>6, <2>8, <3>1
    <3>3. PICK m \in S \ {x} : \A y \in S \ {x} : m >= y
      BY <3>2 DEF HasMax
    <3>4. x \in Int /\ m \in Int /\ \A y \in S : y \in Int
      BY <2>4
    <3>5. CASE m >= x
      <4>1. \A y \in S : m >= y
        BY <3>3, <3>5
      <4> QED
        BY <2>3, <4>1 DEF HasMax
    <3>6. CASE ~(m >= x)
      <4>1. \A y \in S : x >= y
        BY <3>3, <3>4, <3>6
      <4> QED
        BY <2>3, <2>4, <4>1 DEF HasMax
    <3> QED
      BY <3>5, <3>6
  <2> QED
    BY <2>7, <2>8
<1>2. Max(T) \in T /\ \A x \in T : Max(T) >= x
  BY <1>1 DEF HasMax, Max
<1> QED
  BY <1>2

\* The place of a new column among those of its table.
PlaceOf(c, added) == (CHOOSE a \in added : a[1] = Key(c))[2]

\* Where an order adds a column to a table that exists, and those up to one of them.
Added(order, before) ==
  {i \in DOMAIN order : /\ order[i].type = "add" /\ order[i].after.kind = "column"
                        /\ \E t \in Tables(before) : t.id = order[i].after.parent}

UpTo(i, order, before) ==
  {j \in Added(order, before) : j <= i /\ order[j].after.parent = order[i].after.parent}

\* Every new column of an existing table has its place, by the addition that lists it.
LEMMA AddedPlaces ==
  ASSUME NEW before, NEW after, WellFormed(before), WellFormed(after),
         NEW n \in Nat, NEW edges, NEW order, Begins(order, n, Diff(before, after), edges),
         \A op \in Diff(before, after) : \E i \in 1 .. n : order[i] = op,
         NEW c \in Of(after, "column"), Matching(before, c) = {},
         \E t \in Tables(before) : t.id = c.parent
  PROVE  \E k \in Added(order, before) :
           /\ k \in 1 .. n /\ order[k] = Operation("add", Nothing, c)
           /\ PlaceOf(c, AddedColumns(order, before)) = Cardinality(UpTo(k, order, before))
<1> DEFINE ops == Diff(before, after)
           op == Operation("add", Nothing, c)
           added == AddedColumns(order, before)
<1>1. c \in after /\ c.kind = "column"
  BY DEF Of
<1>2. op \in ops
  BY <1>1 DEF Diff
<1>3. op.type = "add" /\ op.after = c
  BY DEF Operation
<1>4. DOMAIN order = 1 .. n /\ \A i, j \in 1 .. n : order[i] = order[j] => i = j
  BY DEF Begins
<1>5. \A i \in 1 .. n : order[i] \in ops
  <2> HIDE DEF ops
  <2> QED BY DEF Begins, ops
<1>6. PICK k \in 1 .. n : order[k] = op
  BY <1>2
<1>7. k \in Added(order, before)
  BY <1>1, <1>3, <1>4, <1>6 DEF Added
<1> DEFINE pair(i) == <<Key(order[i].after), Cardinality(UpTo(i, order, before))>>
<1>8. added = {pair(i) : i \in Added(order, before)}
  BY Zenon DEF AddedColumns, Added, UpTo
<1>9. ASSUME NEW i \in Added(order, before), Key(order[i].after) = Key(c) PROVE i = k
  <2>1. i \in 1 .. n /\ order[i] \in ops /\ order[i].type = "add"
    BY <1>4, <1>5 DEF Added
  <2>2. order[i].after \in after /\ order[i] = Operation("add", Nothing, order[i].after)
    BY <2>1, Operations
  <2>3. order[i].after \in Matching(after, c)
    BY <2>2, <1>9 DEF Matching
  <2>4. Matching(after, c) = {c}
    BY <1>1 DEF WellFormed
  <2>5. order[i] = op
    BY <2>2, <2>3, <2>4
  <2> QED
    BY <1>4, <1>6, <2>1, <2>5
<1>10. pair(k) \in added /\ pair(k)[1] = Key(c)
  BY <1>3, <1>6, <1>7, <1>8
<1>11. \A a \in added : a[1] = Key(c) => a = pair(k)
  <2> SUFFICES ASSUME NEW a \in added, a[1] = Key(c) PROVE a = pair(k)
    OBVIOUS
  <2>1. PICK i \in Added(order, before) : a = pair(i)
    BY <1>8
  <2>2. i = k
    BY <2>1, <1>9
  <2> QED
    BY <2>1, <2>2
<1>12. PlaceOf(c, added) = pair(k)[2]
  <2> HIDE DEF added, pair
  <2>1. (CHOOSE a \in added : a[1] = Key(c)) = pair(k)
    BY <1>10, <1>11
  <2> QED
    BY <2>1 DEF PlaceOf
<1> QED
  BY <1>6, <1>7, <1>12

\* Two new columns of one table have different places, none of them the zeroth.
LEMMA PlacesDiffer ==
  ASSUME NEW before, NEW after, WellFormed(before), WellFormed(after),
         NEW n \in Nat, NEW edges, NEW order, Begins(order, n, Diff(before, after), edges),
         \A op \in Diff(before, after) : \E i \in 1 .. n : order[i] = op,
         NEW c \in Of(after, "column"), Matching(before, c) = {},
         \E t \in Tables(before) : t.id = c.parent
  PROVE  LET added == AddedColumns(order, before) IN
         /\ PlaceOf(c, added) \in Nat /\ PlaceOf(c, added) > 0
         /\ \A d \in Of(after, "column") :
              Matching(before, d) = {} /\ d.parent = c.parent /\ d # c =>
                PlaceOf(d, added) # PlaceOf(c, added)
<1> DEFINE added == AddedColumns(order, before)
           upTo(i) == UpTo(i, order, before)
<1>1. \A i \in 1 .. n : IsFiniteSet(upTo(i)) /\ Cardinality(upTo(i)) \in Nat
  <2>1. \A i : upTo(i) \in SUBSET (1 .. n)
    BY DEF UpTo, Added, Begins
  <2>2. IsFiniteSet(1 .. n)
    BY 0 \in Int, 1 \in Int, n \in Int, FS_Interval
  <2> HIDE DEF upTo
  <2>3. \A i \in 1 .. n : IsFiniteSet(upTo(i))
    BY <2>1, <2>2, FS_Subset
  <2> QED
    BY <2>3, FS_CardinalityType
<1>2. PICK k \in Added(order, before) :
        /\ k \in 1 .. n /\ order[k] = Operation("add", Nothing, c)
        /\ PlaceOf(c, added) = Cardinality(upTo(k))
  BY AddedPlaces
<1>3. k \in upTo(k)
  BY <1>2 DEF UpTo
<1>4. Cardinality(upTo(k)) # 0
  <2> HIDE DEF upTo
  <2> QED BY <1>1, <1>2, <1>3, FS_EmptySet
<1>5. ASSUME NEW x \in Added(order, before), NEW y \in Added(order, before),
             x \in 1 .. n, y \in 1 .. n, x < y,
             order[x].after.parent = order[y].after.parent
      PROVE  Cardinality(upTo(x)) # Cardinality(upTo(y))
  <2>1. upTo(x) \in SUBSET upTo(y)
    <3> SUFFICES ASSUME NEW j \in Added(order, before), j <= x,
                        order[j].after.parent = order[x].after.parent
                 PROVE  j <= y
      BY <1>5 DEF UpTo
    <3>1. j \in 1 .. n
      BY DEF Added, Begins
    <3> QED
      BY <3>1, <1>5
  <2>2. y \in upTo(y) /\ y \notin upTo(x)
    BY <1>5 DEF UpTo
  <2> HIDE DEF upTo
  <2> QED
    BY <1>1, <1>5, <2>1, <2>2, FS_Subset
<1>6. ASSUME NEW d \in Of(after, "column"), Matching(before, d) = {}, d.parent = c.parent, d # c
      PROVE  PlaceOf(d, added) # PlaceOf(c, added)
  <2>1. PICK l \in Added(order, before) :
          /\ l \in 1 .. n /\ order[l] = Operation("add", Nothing, d)
          /\ PlaceOf(d, added) = Cardinality(upTo(l))
    BY <1>6, AddedPlaces
  <2>2. order[k].after = c /\ order[l].after = d
    BY <1>2, <2>1 DEF Operation
  <2>3. k < l \/ l < k
    BY <1>2, <1>6, <2>1, <2>2
  <2> HIDE DEF upTo, added
  <2> QED
    BY <1>2, <1>5, <1>6, <2>1, <2>2, <2>3
<1> QED
  BY <1>1, <1>2, <1>4, <1>6

\* Sealing gives the columns of a table different numbers: those that stay keep
\* theirs, the new ones follow the highest.
LEMMA OrdinalsKept ==
  ASSUME NEW declared, NEW after, WellFormed(declared), WellFormed(after),
         NEW before, Like(before, declared), OrdinalsDiffer(before),
         NEW program \in Programs(declared, after)
  PROVE  OrdinalsDiffer(PhysicalSnapshot(before, after, program.added))
<1> DEFINE ops == Diff(declared, after)
           edges == Edges(ops, declared, after)
           added == program.added
           n == Cardinality(ops)
<1>1. PICK order \in Orders(ops, edges) : added = AddedColumns(order, declared)
  BY OneCompiled
<1>2. /\ n \in Nat /\ Begins(order, n, ops, edges)
      /\ \A op \in ops : \E i \in 1 .. n : order[i] = op
  <2>1. IsFiniteSet(ops)
    BY FinitePlan DEF WellFormed
  <2> HIDE DEF ops, edges
  <2> QED
    BY <2>1, OrdersList, FS_CardinalityType
<1> DEFINE existing(t) == \E b \in Tables(before) : b.id = t
           ords(t) == {b.ord : b \in {x \in Of(before, "column") : x.parent = t}}
           highest(t) == Max({0} \cup ords(t))
           place(c) == (CHOOSE a \in added : a[1] = Key(c))[2]
           ordinal(c) == IF ~existing(c.parent) THEN c.ord
                         ELSE IF Matching(before, c) # {}
                         THEN (CHOOSE b \in Matching(before, c) : TRUE).ord
                         ELSE highest(c.parent) + place(c)
           numbered(o) == IF o.kind = "column" THEN [o EXCEPT !.ord = ordinal(o)] ELSE o
           sealed1 == PhysicalSnapshot(before, after, added)
<1>3. sealed1 = {numbered(o) : o \in after}
  BY Zenon DEF PhysicalSnapshot
<1>4. ASSUME NEW t PROVE highest(t) \in Int /\ \A b \in Of(before, "column") : b.parent = t => b.ord <= highest(t)
  <2> DEFINE T == {0} \cup ords(t)
             cs == {x \in Of(before, "column") : x.parent = t}
  <2>1. IsFiniteSet(cs)
    BY FS_Subset DEF OrdinalsDiffer, Of
  <2>2. IsFiniteSet(ords(t))
    <3> DEFINE g == [b \in cs |-> b.ord]
    <3> HIDE DEF cs
    <3>1. g \in Surjection(cs, {b.ord : b \in cs})
      BY DEF Surjection
    <3>2. IsFiniteSet({b.ord : b \in cs})
      BY <2>1, <3>1, FS_Surjection
    <3> QED
      BY <3>2 DEF cs
  <2>3. T \in SUBSET Int
    BY DEF OrdinalsDiffer
  <2>4. IsFiniteSet(T) /\ T # {}
    <3>1. T = ords(t) \cup {0}
      OBVIOUS
    <3> HIDE DEF ords, T
    <3> QED BY <2>2, <3>1, FS_AddElement
  <2>5. \A b \in Of(before, "column") : b.parent = t => b.ord \in T
    OBVIOUS
  <2>6. Max(T) \in T /\ \A x \in T : x <= Max(T)
    <3> HIDE DEF T
    <3> QED BY <2>3, <2>4, MaxBounds
  <2>7. highest(t) = Max(T)
    OBVIOUS
  <2> HIDE DEF T, highest
  <2> QED
    BY <2>3, <2>5, <2>6, <2>7
<1>5. ASSUME NEW c \in Of(after, "column"), existing(c.parent)
      PROVE  \E t \in Tables(declared) : t.id = c.parent
  BY <1>5 DEF Like, Alike, Tables, Of
<1>6. ASSUME NEW c \in Of(after, "column"), Matching(before, c) = {} PROVE Matching(declared, c) = {}
  BY <1>6 DEF Like, Alike, Matching, Key
<1>7. ASSUME NEW c \in Of(after, "column"), existing(c.parent), Matching(before, c) # {}
      PROVE  \E b \in Of(before, "column") : b.parent = c.parent /\ b.id = c.id /\ ordinal(c) = b.ord
  <2> DEFINE b == CHOOSE x \in Matching(before, c) : TRUE
  <2>1. b \in Matching(before, c)
    BY <1>7
  <2>2. b \in Of(before, "column") /\ b.parent = c.parent /\ b.id = c.id
    <3> HIDE DEF b
    <3> QED BY <2>1, SameKey DEF Of
  <2>3. ordinal(c) = b.ord
    BY <1>7
  <2> HIDE DEF b, ordinal
  <2> QED
    BY <2>2, <2>3
<1>8. ASSUME NEW c \in Of(after, "column"), existing(c.parent), Matching(before, c) = {}
      PROVE  /\ ordinal(c) = highest(c.parent) + place(c) /\ place(c) \in Nat /\ place(c) > 0
             /\ \A d \in Of(after, "column") :
                  Matching(before, d) = {} /\ d.parent = c.parent /\ d # c => place(d) # place(c)
  <2>1. ordinal(c) = highest(c.parent) + place(c)
    BY <1>8
  <2>2. /\ PlaceOf(c, added) \in Nat /\ PlaceOf(c, added) > 0
        /\ \A d \in Of(after, "column") :
             Matching(declared, d) = {} /\ d.parent = c.parent /\ d # c =>
               PlaceOf(d, added) # PlaceOf(c, added)
    <3>1. Matching(declared, c) = {} /\ \E t \in Tables(declared) : t.id = c.parent
      BY <1>5, <1>6, <1>8
    <3> HIDE DEF added, edges, n
    <3> QED BY <1>1, <1>2, <3>1, PlacesDiffer
  <2>3. \A d : place(d) = PlaceOf(d, added)
    BY DEF PlaceOf
  <2> HIDE DEF ordinal, place, highest, added
  <2> QED
    BY <1>6, <2>1, <2>2, <2>3
<1>9. ASSUME NEW c \in Of(after, "column") PROVE ordinal(c) \in Int
  <2>1. CASE ~existing(c.parent)
    BY <2>1 DEF WellFormed, Of
  <2>2. CASE existing(c.parent) /\ Matching(before, c) # {}
    <3> HIDE DEF ordinal, existing
    <3> QED BY <2>2, <1>7 DEF OrdinalsDiffer
  <2>3. CASE existing(c.parent) /\ Matching(before, c) = {}
    <3> HIDE DEF ordinal, place, highest, existing
    <3> QED BY <2>3, <1>4, <1>8
  <2> QED
    BY <2>1, <2>2, <2>3
<1>10. ASSUME NEW c \in Of(after, "column"), NEW d \in Of(after, "column"),
              c.parent = d.parent, c # d
       PROVE  ordinal(c) # ordinal(d)
  <2>0. c.id # d.id
    <3>1. c \in after /\ d \in after /\ c.kind = d.kind
      BY DEF Of
    <3>2. Matching(after, c) = {c}
      BY <3>1 DEF WellFormed
    <3>3. d \notin Matching(after, c)
      BY <3>2, <1>10
    <3> QED
      BY <3>1, <3>3, <1>10, Keyed
  <2>1. CASE ~existing(c.parent)
    BY <2>1, <1>10 DEF WellFormed
  <2>2. CASE existing(c.parent) /\ Matching(before, c) # {} /\ Matching(before, d) # {}
    <3> HIDE DEF ordinal, existing
    <3> QED BY <2>0, <2>2, <1>7, <1>10 DEF OrdinalsDiffer
  <2>3. CASE existing(c.parent) /\ Matching(before, c) = {} /\ Matching(before, d) = {}
    <3> HIDE DEF ordinal, place, highest, existing
    <3> QED BY <2>3, <1>4, <1>8, <1>10
  <2>4. ASSUME NEW x \in Of(after, "column"), NEW y \in Of(after, "column"),
               x.parent = y.parent, existing(x.parent),
               Matching(before, x) = {}, Matching(before, y) # {}
        PROVE  ordinal(x) # ordinal(y)
    <3> HIDE DEF ordinal, place, highest, existing
    <3>1. ordinal(x) = highest(x.parent) + place(x) /\ place(x) \in Nat /\ place(x) > 0
      BY <2>4, <1>8
    <3>2. PICK b \in Of(before, "column") : b.parent = x.parent /\ ordinal(y) = b.ord
      BY <2>4, <1>7
    <3>3. b.ord \in Int /\ b.ord <= highest(x.parent) /\ highest(x.parent) \in Int
      BY <3>2, <1>4 DEF OrdinalsDiffer
    <3> QED
      BY <3>1, <3>2, <3>3
  <2> HIDE DEF ordinal, existing
  <2> QED
    BY <1>10, <2>1, <2>2, <2>3, <2>4
<1>11. IsFiniteSet(sealed1)
  <2> DEFINE g == [o \in after |-> numbered(o)]
  <2> HIDE DEF numbered, sealed1
  <2>1. g \in Surjection(after, sealed1)
    BY <1>3 DEF Surjection
  <2> QED
    BY <2>1, FS_Surjection DEF WellFormed
<1>12. ASSUME NEW x \in Of(sealed1, "column")
       PROVE  \E c \in Of(after, "column") : x = numbered(c) /\ x.ord = ordinal(c) /\ x.parent = c.parent
  <2>1. PICK c \in after : x = numbered(c)
    <3> HIDE DEF numbered, sealed1
    <3> QED BY <1>3 DEF Of
  <2>2. IsObject(c)
    BY DEF WellFormed
  <2>3. c.kind = "column"
    <3>1. CASE c.kind # "column"
      BY <2>1, <3>1 DEF Of
    <3> QED
      BY <3>1
  <2>4. x = [c EXCEPT !.ord = ordinal(c)]
    BY <2>1, <2>3
  <2>5. x.ord = ordinal(c) /\ x.parent = c.parent
    <3> HIDE DEF ordinal
    <3> QED BY <2>2, <2>4, Numbered
  <2> HIDE DEF numbered, ordinal
  <2> QED
    BY <2>1, <2>3, <2>5 DEF Of
<1> HIDE DEF numbered, ordinal, sealed1
<1>13. \A x \in Of(sealed1, "column") : x.ord \in Int
  BY <1>9, <1>12
<1>14. ASSUME NEW x \in Of(sealed1, "column"), NEW y \in Of(sealed1, "column"),
              x.parent = y.parent, x.ord = y.ord
       PROVE  x = y
  <2>1. PICK c \in Of(after, "column") : x = numbered(c) /\ x.ord = ordinal(c) /\ x.parent = c.parent
    BY <1>12
  <2>2. PICK d \in Of(after, "column") : y = numbered(d) /\ y.ord = ordinal(d) /\ y.parent = d.parent
    BY <1>12
  <2>3. c = d
    BY <1>10, <1>14, <2>1, <2>2
  <2> QED
    BY <2>1, <2>2, <2>3
<1>15. OrdinalsDiffer(sealed1)
  BY <1>11, <1>13, <1>14 DEF OrdinalsDiffer
<1> QED
  BY <1>15 DEF sealed1

-----------------------------------------------------------------------------
(* The invariant of the artifacts and the database.                         *)

\* An artifact leads from one declared schema to another by a program between them.
Declares(a) ==
  /\ a.step[1] \in SchemaName /\ a.step[2] \in SchemaName
  /\ a.program # 0 => a.step \in Successors /\ a.program \in DOMAIN Program[a.step]
  /\ Like(a.before, Schema[a.step[1]]) /\ Like(a.after, Schema[a.step[2]])
  /\ OrdinalsDiffer(a.before) /\ OrdinalsDiffer(a.after)

\* Every artifact is one of those.
Artifacts == \A d \in DOMAIN sealed : Declares(sealed[d])

\* What a review waits to record is a declared schema.
Reviews ==
  \A p \in Process : Is(p, "review") =>
    process[p].schema \in SchemaName /\ process[p].candidate = Schema[process[p].schema]

\* The declared schemas an artifact leads from and to.
From(d) == Schema[sealed[d].step[1]]
To(d) == Schema[sealed[d].step[2]]

\* While an attempt is open, the tables its artifact removes have no column that
\* artifact does not know.
Pursued == Open => OnlyKnown(live, From(attempt.digest), To(attempt.digest))

\* A process that runs a phase has one to run.
Placed == \A p \in Process : Is(p, "phase") => attempt.done + 1 \in DOMAIN Phases(attempt.digest)

\* The invariant.
LossInv == Artifacts /\ Reviews /\ CatalogOf(live) /\ Pursued /\ Placed

\* A snapshot is like itself.
LEMMA SameLike == \A s : Like(s, s)
BY DEF Like, Alike

\* Sealing numbers columns and changes nothing else of the schema.
LEMMA SnapshotLike ==
  ASSUME NEW before, NEW after, \A o \in after : IsObject(o), NEW added
  PROVE  Like(PhysicalSnapshot(before, after, added), after)
<1> DEFINE existing(t) == \E b \in Tables(before) : b.id = t
           highest(t) == Max({0} \cup {c.ord : c \in {b \in Of(before, "column") : b.parent = t}})
           place(c) == (CHOOSE a \in added : a[1] = Key(c))[2]
           ordinal(c) == IF ~existing(c.parent) THEN c.ord
                         ELSE IF Matching(before, c) # {}
                         THEN (CHOOSE b \in Matching(before, c) : TRUE).ord
                         ELSE highest(c.parent) + place(c)
           numbered(o) == IF o.kind = "column" THEN [o EXCEPT !.ord = ordinal(o)] ELSE o
<1>1. PhysicalSnapshot(before, after, added) = {numbered(o) : o \in after}
  BY Zenon DEF PhysicalSnapshot
<1>2. ASSUME NEW o \in after PROVE Alike(numbered(o), o)
  <2> HIDE DEF ordinal
  <2> QED BY Numbered DEF Alike
<1> HIDE DEF numbered
<1> QED
  BY <1>1, <1>2 DEF Like

\* A program is a list of phases, each of an operation between the schemas.
LEMMA ProgramPhases ==
  ASSUME AuthoringAssumption, NEW step \in Successors, NEW n \in DOMAIN Program[step]
  PROVE  LET phases == Program[step][n].phases
             before == Schema[step[1]]
             after == Schema[step[2]]
             ops == Diff(before, after)
         IN /\ Len(phases) \in Nat /\ DOMAIN phases = 1 .. Len(phases)
            /\ phases # << >> => 1 \in DOMAIN phases
            /\ \A k \in DOMAIN phases : \E op \in ops :
                 CanRender(op) /\ phases[k] = Phase(op, ops, before, after)
<1> DEFINE before == Schema[step[1]]
           after == Schema[step[2]]
           ops == Diff(before, after)
           edges == Edges(ops, before, after)
           phases == Program[step][n].phases
<1>1. Program[step][n] \in Programs(before, after)
  BY DEF AuthoringAssumption
<1>2. \A op \in ops : CanRender(op)
  BY <1>1 DEF Programs
<1>3. PICK order \in Orders(ops, edges) : Program[step][n] \in Compile(order, ops, edges, before, after)
  <2>1. Program[step][n] \in
          UNION {Compile(order, ops, edges, before, after) : order \in Orders(ops, edges)}
    BY <1>1, <1>2 DEF Programs
  <2> QED
    BY <2>1
<1>4. order \in Seq(ops)
  BY DEF Orders
<1>5. PICK f \in Placements(order, ops, edges) :
        phases = [k \in DOMAIN f |-> Phase(order[f[k]], ops, before, after)]
  BY <1>3 DEF Compile
<1> DEFINE roots == {i \in DOMAIN order : Containing(order[i], ops) = {}}
<1>6. f \in [1 .. Cardinality(roots) -> roots]
  BY DEF Placements
<1>7. Cardinality(roots) \in Nat
  <2>1. roots \subseteq 1 .. Len(order) /\ Len(order) \in Nat
    BY <1>4
  <2>2. IsFiniteSet(roots)
    BY <2>1, FS_Interval, FS_Subset
  <2> QED
    BY <2>2, FS_CardinalityType
<1>8. DOMAIN phases = 1 .. Cardinality(roots) /\ Len(phases) = Cardinality(roots)
  <2> HIDE DEF roots
  <2> QED BY <1>5, <1>6, <1>7
<1>9. ASSUME NEW k \in DOMAIN phases
      PROVE  \E op \in ops : CanRender(op) /\ phases[k] = Phase(op, ops, before, after)
  <2>1. f[k] \in DOMAIN order
    BY <1>6, <1>8
  <2>2. order[f[k]] \in ops
    BY <2>1, <1>4
  <2> QED
    BY <2>2, <1>2, <1>5, <1>6, <1>8
<1>10. phases # << >> => 1 \in DOMAIN phases
  <2> SUFFICES ASSUME Cardinality(roots) = 0 PROVE phases = << >>
    BY <1>7, <1>8
  <2>1. DOMAIN f = {}
    BY <1>6
  <2> QED
    BY <1>5, <2>1
<1> QED
  BY <1>7, <1>8, <1>9, <1>10

\* The phases of an artifact.
LEMMA PhasesOf ==
  ASSUME AuthoringAssumption, NamesStay, Artifacts, NEW d \in DOMAIN sealed
  PROVE  /\ Len(Phases(d)) \in Nat /\ DOMAIN Phases(d) = 1 .. Len(Phases(d))
         /\ Phases(d) # << >> => 1 \in DOMAIN Phases(d)
         /\ WellFormed(From(d)) /\ WellFormed(To(d))
         /\ \A k \in DOMAIN Phases(d) :
              /\ KeepsNames(From(d), To(d))
              /\ \E op \in Diff(From(d), To(d)) :
                   CanRender(op) /\ Phases(d)[k] = Phase(op, Diff(From(d), To(d)), From(d), To(d))
<1> DEFINE a == sealed[d]
<1>1. Declares(a)
  BY DEF Artifacts
<1>2. WellFormed(From(d)) /\ WellFormed(To(d))
  BY <1>1 DEF Declares, AuthoringAssumption, From, To
<1>3. CASE a.program = 0
  <2>1. Phases(d) = << >>
    BY <1>3 DEF Phases
  <2> QED
    BY <1>2, <2>1
<1>4. CASE a.program # 0
  <2>1. a.step \in Successors /\ a.program \in DOMAIN Program[a.step]
    BY <1>1, <1>4 DEF Declares
  <2>2. Phases(d) = Program[a.step][a.program].phases
    BY <1>4 DEF Phases
  <2>3. KeepsNames(From(d), To(d))
    BY <2>1 DEF NamesStay, From, To
  <2>4. /\ Len(Phases(d)) \in Nat /\ DOMAIN Phases(d) = 1 .. Len(Phases(d))
        /\ Phases(d) # << >> => 1 \in DOMAIN Phases(d)
        /\ \A k \in DOMAIN Phases(d) : \E op \in Diff(From(d), To(d)) :
             CanRender(op) /\ Phases(d)[k] = Phase(op, Diff(From(d), To(d)), From(d), To(d))
    <3> DEFINE step == a.step
               n == a.program
    <3>1. step \in Successors /\ n \in DOMAIN Program[step]
      BY <2>1
    <3>2. Phases(d) = Program[step][n].phases
      BY <2>2
    <3>3. From(d) = Schema[step[1]] /\ To(d) = Schema[step[2]]
      BY DEF From, To
    <3> HIDE DEF step, n
    <3>4. LET phases == Program[step][n].phases
              before == Schema[step[1]]
              after == Schema[step[2]]
              ops == Diff(before, after)
          IN /\ Len(phases) \in Nat /\ DOMAIN phases = 1 .. Len(phases)
             /\ phases # << >> => 1 \in DOMAIN phases
             /\ \A k \in DOMAIN phases : \E op \in ops :
                  CanRender(op) /\ phases[k] = Phase(op, ops, before, after)
      BY <3>1, ProgramPhases
    <3> QED
      BY <3>2, <3>3, <3>4
  <2> QED
    BY <1>2, <2>3, <2>4
<1> QED
  BY <1>3, <1>4

\* A database that reads as the old snapshot has in the tables that leave the
\* columns that snapshot knows.
LEMMA MatchesKnown ==
  ASSUME NEW before, NEW after, WellFormed(before), NEW expected, Like(expected, before),
         NEW s, CatalogOf(s), Matches(s, expected)
  PROVE  OnlyKnown(s, before, after)
<1> SUFFICES ASSUME NEW t \in Tables(before),
                    NEW c \in Of(s, "column"), c.parent = t.name
             PROVE  \E b \in Of(before, "column") : b.parent = t.id /\ b.name = c.name
  BY DEF OnlyKnown
<1> DEFINE known == {o \in expected : o.kind = "table" /\ o.parent = "" /\ o.name = t.name}
<1>1. t \in before /\ t.kind = "table" /\ t.parent = "" /\ t.name # ""
  BY TableFacts
<1>2. PICK u \in expected : Alike(u, t)
  BY <1>1 DEF Like
<1>3. u \in known
  BY <1>1, <1>2 DEF Alike
<1>4. \A o \in known : o.id = t.id
  <2> SUFFICES ASSUME NEW o \in known PROVE o.id = t.id
    OBVIOUS
  <2>1. PICK q \in before : Alike(o, q)
    BY DEF Like
  <2>2. q \in Tables(before) /\ q.name = t.name
    BY <2>1 DEF Alike, Tables, Of
  <2>3. q = t
    BY <2>2 DEF WellFormed
  <2> QED
    BY <2>1, <2>3 DEF Alike
<1>5. IdIn(expected, "table", "", t.name) = t.id
  <2>1. IdIn(expected, "table", "", t.name) = (CHOOSE o \in known : TRUE).id
    BY <1>3 DEF IdIn
  <2>2. (CHOOSE o \in known : TRUE) \in known
    BY <1>3
  <2> HIDE DEF known
  <2> QED BY <2>1, <2>2, <1>4
<1>6. c \in s /\ c.kind = "column" /\ IsObject(c)
  BY DEF Of, CatalogOf
<1>7. c \in Managed(s, expected)
  <2>1. t.name \in ManagedNames(expected)
    BY <1>1, <1>2 DEF ManagedNames, Tables, Of, Alike
  <2> QED
    BY <2>1, <1>6 DEF Managed
<1>8. PICK x \in ReadSnapshot(s, expected) : x.kind = "column" /\ x.parent = t.id /\ x.name = c.name
  <2> DEFINE table(y) == IF y = "" THEN "" ELSE IdIn(expected, "table", "", y)
             column(y, z) == IdIn(expected, "column", table(y), z)
             read(o) == [o EXCEPT !.id = IdIn(expected, o.kind, table(o.parent), o.name),
                                  !.parent = table(@),
                                  !.over = {column(o.parent, z) : z \in @},
                                  !.refs = {table(y) : y \in @},
                                  !.keys = {column(y, z) : y \in o.refs, z \in @},
                                  !.ord = IF o.kind = "column" THEN @ ELSE 0]
  <2>1. ReadSnapshot(s, expected) = {read(o) : o \in Managed(s, expected)}
    BY DEF ReadSnapshot
  <2>2. read(c) \in ReadSnapshot(s, expected)
    <3> HIDE DEF read
    <3> QED BY <2>1, <1>7
  <2>3. read(c).kind = "column" /\ read(c).parent = table(c.parent) /\ read(c).name = c.name
    <3> HIDE DEF table, column
    <3> QED BY <1>6 DEF IsObject
  <2>4. table(c.parent) = t.id
    BY <1>1, <1>5
  <2> HIDE DEF read, table
  <2> QED BY <2>2, <2>3, <2>4
<1>9. x \in expected
  BY DEF Matches
<1>10. PICK b \in before : Alike(x, b)
  BY <1>9 DEF Like
<1> QED
  BY <1>8, <1>10 DEF Alike, Of

-----------------------------------------------------------------------------
(* Its steps.                                                               *)

\* One phase of the open attempt, run by a command or by an operator.
LEMMA PhaseStep ==
  ASSUME AuthoringAssumption, NamesStay, IInv, LossInv, Open,
         attempt.done + 1 \in DOMAIN Phases(attempt.digest),
         RunAll(live, CurrentPhase.statements).ok,
         live' = RunAll(live, CurrentPhase.statements).live
  PROVE  /\ CatalogOf(live') /\ OnlyKnown(live', From(attempt.digest), To(attempt.digest))
         /\ \A c \in Of(live, "column") : Vanishes(c) =>
              \E op \in CurrentPhase.members : Removes(op, c)
<1> DEFINE d == attempt.digest
           before == From(d)
           after == To(d)
           ops == Diff(before, after)
<1>1. d \in DOMAIN sealed
  BY DEF IInv, Attempts, Follows
<1>2. /\ WellFormed(before) /\ WellFormed(after) /\ KeepsNames(before, after)
      /\ \E op \in ops : CanRender(op) /\ CurrentPhase = Phase(op, ops, before, after)
  BY <1>1, PhasesOf DEF LossInv, CurrentPhase
<1>3. PICK op \in ops : CanRender(op) /\ CurrentPhase = Phase(op, ops, before, after)
  BY <1>2
<1>4. /\ CurrentPhase.statements = RenderOperation(op, ops, before, after)
      /\ CurrentPhase.members = Members(op, ops)
  BY <1>3 DEF Phase
<1>5. Sound(live, before, after)
  BY DEF LossInv, Pursued, Sound
<1>6. /\ Sound(live', before, after)
      /\ \A c \in Of(live, "column") : Lost(c, live') =>
           \E m \in Members(op, ops) : Takes(m, c, before, after)
  <2> HIDE DEF before, after
  <2> QED BY <1>2, <1>3, <1>4, <1>5, PhaseTakes
<1>7. Like(Running.before, before) /\ Like(Running.after, after)
  BY <1>1 DEF LossInv, Artifacts, Declares, Running, From, To
<1>8. ASSUME NEW c \in Of(live, "column"), Vanishes(c)
      PROVE  \E m \in CurrentPhase.members : Removes(m, c)
  <2>1. PICK m \in Members(op, ops) : Takes(m, c, before, after)
    BY <1>6, <1>8 DEF Lost, Vanishes
  <2>2. m.type = "remove" /\ m.before.kind = "column" /\ m.before.name = c.name
    BY <2>1 DEF Takes
  <2>3. \E t \in Tables(Running.before) : t.id = m.before.parent /\ t.name = c.parent
    <3>1. PICK x \in Tables(before) : x.id = m.before.parent /\ x.name = c.parent
      BY <2>1 DEF Takes
    <3>2. PICK t \in Running.before : Alike(t, x)
      BY <1>7, <3>1 DEF Like, Tables, Of
    <3> QED
      BY <3>1, <3>2 DEF Alike, Tables, Of
  <2>4. ~\E o \in Of(Running.after, "column") : o.parent = m.before.parent /\ o.id = m.before.id
    <3> SUFFICES ASSUME NEW o \in Of(Running.after, "column"),
                        o.parent = m.before.parent, o.id = m.before.id
                 PROVE  FALSE
      OBVIOUS
    <3>1. o \in Running.after /\ o.kind = "column"
      BY DEF Of
    <3>2. PICK q \in after : Alike(o, q)
      BY <1>7, <3>1 DEF Like
    <3>3. q \in Matching(after, m.before)
      BY <2>2, <3>1, <3>2, Keyed DEF Alike
    <3> QED
      BY <3>3, <2>1 DEF Takes
  <2>5. Removes(m, c)
    BY <2>2, <2>3, <2>4 DEF Removes
  <2> QED
    BY <2>1, <2>5, <1>4
<1> QED
  BY <1>6, <1>8 DEF Sound

\* What the other steps leave as it was.
Quiet ==
  /\ live' = live /\ attempt' \in {attempt, NoAttempt}
  /\ \A p \in Process : Is(p, "phase")' => Is(p, "phase")

\* An idle process runs nothing.
LEMMA Idles == Idle.at = "idle"
BY DEF Idle

\* A step of one process leaves the others as they are.
LEMMA ProcessSet ==
  ASSUME Shaped, NEW p \in Process, NEW r, Set(p, r)
  PROVE  process'[p] = r /\ \A q \in Process : q # p => process'[q] = process[q]
BY DEF Shaped, Set

\* A process that does not start a phase.
LEMMA Unstarted ==
  ASSUME Shaped, NEW p \in Process, NEW r, Set(p, r), r.at # "phase"
  PROVE  \A q \in Process : Is(q, "phase")' => Is(q, "phase")
BY ProcessSet DEF Is

\* Every step but the start of an attempt and the run of a phase is quiet.
LEMMA QuietSteps ==
  ASSUME IInv, [Next]_vars
  PROVE  Quiet \/ (\E p \in Process : NextArtifact(p) \/ RunPhase(p)) \/ RepairPhase
<1> USE DEF IInv
<1>1. ASSUME UNCHANGED process PROVE \A q \in Process : Is(q, "phase")' => Is(q, "phase")
  BY <1>1 DEF Is
<1>2. CASE UNCHANGED vars
  BY <1>1, <1>2 DEF vars, Quiet
<1>3. ASSUME NEW p \in Process, CreateOrRecord(p) PROVE Quiet
  <2>1. live' = live /\ attempt' = attempt
    BY <1>3 DEF CreateOrRecord, Create, Bootstrap, Capture, RecordBaseline, Abandon, WriteFile
  <2>2. \A q \in Process : Is(q, "phase")' => Is(q, "phase")
    <3>1. CASE Create(p)
      <4> DEFINE r == [Idle EXCEPT !.at = "write", !.draft = Len(sealed) + 1]
      <4>1. r.at = "write"
        BY DEF Idle
      <4>2. Set(p, r)
        BY <3>1 DEF Create
      <4> HIDE DEF r
      <4> QED
        BY <4>1, <4>2, Unstarted
    <3>2. CASE Bootstrap(p)
      <4> DEFINE r == [Idle EXCEPT !.at = "lease", !.own = <<Len(sealed) + 1>>]
      <4>1. r.at = "lease"
        BY DEF Idle
      <4>2. Set(p, r)
        BY <3>2 DEF Bootstrap
      <4> HIDE DEF r
      <4> QED
        BY <4>1, <4>2, Unstarted
    <3>3. CASE Capture(p)
      <4> DEFINE r(n) == [Idle EXCEPT !.at = "review", !.schema = n, !.candidate = Schema[n]]
      <4>1. \A n : r(n).at = "review"
        BY DEF Idle
      <4>2. PICK n \in Declared : Set(p, r(n))
        BY <3>3 DEF Capture
      <4> HIDE DEF r
      <4> QED
        BY <4>1, <4>2, Unstarted
    <3>4. CASE RecordBaseline(p)
      <4> DEFINE r == [Idle EXCEPT !.at = "write", !.draft = Len(sealed) + 1]
      <4>1. r.at = "write"
        BY DEF Idle
      <4>2. Set(p, r) \/ Set(p, Idle)
        BY <3>4 DEF RecordBaseline
      <4> HIDE DEF r
      <4> QED
        BY <4>1, <4>2, Idles, Unstarted
    <3>5. CASE Abandon(p) \/ WriteFile(p)
      BY <3>5, Idles, Unstarted DEF Abandon, WriteFile
    <3> QED
      BY <1>3, <3>1, <3>2, <3>3, <3>4, <3>5 DEF CreateOrRecord
  <2> QED
    BY <2>1, <2>2 DEF Quiet
<1>4. ASSUME NEW p \in Process, Catch(p), UNCHANGED live PROVE Quiet
  <2>1. attempt' \in {attempt, NoAttempt} /\ Set(p, Idle)
    BY <1>4 DEF Catch, Release
  <2> QED
    BY <1>4, <2>1, Unstarted, Idles DEF Quiet
<1>5. ASSUME NEW p \in Process, RunPending(p)
      PROVE  Quiet \/ NextArtifact(p) \/ RunPhase(p)
  <2>1. CASE Apply(p)
    <3> DEFINE r == [Idle EXCEPT !.at = "lease", !.own = Chain]
    <3>1. r.at = "lease"
      BY DEF Idle
    <3>2. Set(p, r) /\ UNCHANGED <<live, attempt>>
      BY <2>1 DEF Apply
    <3> HIDE DEF r
    <3> QED
      BY <3>1, <3>2, Unstarted DEF Quiet
  <2>2. CASE AcquireLease(p)
    <3> DEFINE r == [process[p] EXCEPT !.at = "next"]
    <3>1. r.at = "next"
      BY GoingOn DEF Shaped
    <3>2. (Set(p, r) \/ Set(p, Idle)) /\ UNCHANGED <<live, attempt>>
      BY <2>2 DEF AcquireLease
    <3> HIDE DEF r
    <3> QED
      BY <3>1, <3>2, Idles, Unstarted DEF Quiet
  <2>3. CASE StopRun(p)
    BY <2>3, Unstarted, Idles DEF StopRun, Release, Quiet
  <2>4. CASE RefusePhase(p)
    BY <2>4, <1>4 DEF RefusePhase, Catch
  <2> QED
    BY <1>5, <2>1, <2>2, <2>3, <2>4 DEF RunPending
<1>6. ASSUME NEW p \in Process, FailPhase(p) PROVE Quiet
  BY <1>6, <1>4 DEF FailPhase, Catch
<1>7. ASSUME NEW p \in Process, Crash(p) PROVE Quiet
  BY <1>7, Unstarted, Idles DEF Crash, Quiet
<1>8. ASSUME Operator PROVE Quiet \/ RepairPhase
  <2>1. CASE RepairPhase
    BY <2>1
  <2>2. CASE ReconcileApplied \/ ReconcileRolledBack
    BY <2>2, <1>1 DEF ReconcileApplied, ReconcileRolledBack, Quiet
  <2>3. CASE \E d \in files : RemoveFile(d)
    BY <2>3, <1>1 DEF RemoveFile, Quiet
  <2> QED
    BY <1>8, <2>1, <2>2, <2>3 DEF Operator
<1> QED
  BY <1>2, <1>3, <1>5, <1>6, <1>7, <1>8 DEF Next

\* A database that was given one of the initial schemas.
LEMMA InitLossInv == ASSUME AuthoringAssumption, Init PROVE LossInv
<1>1. Artifacts
  BY DEF Init, Artifacts
<1>2. Reviews /\ Placed
  BY Idles DEF Init, Reviews, Placed, Is
<1>3. Pursued
  BY DEF Init, Pursued, Open
<1>4. CatalogOf(live)
  <2>1. PICK n \in Initial : live = Installed(Schema[n])
    BY DEF Init
  <2> DEFINE s == Schema[n]
             table(o) == IF o.parent = "" THEN "" ELSE NameOf(s, "table", "", o.parent)
             made(o) == Physical(o, table(o), s)
             ord(o) == IF o.kind = "table" THEN Cardinality(ColumnsOf(s, o.id)) ELSE o.ord
             numbered(o) == [made(o) EXCEPT !.ord = ord(o)]
  <2>2. live = {numbered(o) : o \in s}
    BY <2>1 DEF Installed
  <2>3. WellFormed(s)
    BY DEF AuthoringAssumption
  <2>4. ASSUME NEW o \in s
        PROVE  /\ IsObject(numbered(o)) /\ numbered(o).kind = o.kind
               /\ o.kind = "column" => numbered(o).over = {}
    <3>1. IsObject(o) /\ (o.kind = "column" => o.over = {})
      BY <2>3 DEF WellFormed
    <3>2. /\ IsObject(made(o)) /\ made(o).kind = o.kind
          /\ o.kind = "column" => made(o).over = {}
      <4> HIDE DEF table, s
      <4> QED BY <3>1, Made
    <3> HIDE DEF made, ord
    <3> QED
      BY <3>2, Numbered
  <2> HIDE DEF numbered, s
  <2> QED
    BY <2>2, <2>4 DEF CatalogOf
<1> QED
  BY <1>1, <1>2, <1>3, <1>4 DEF LossInv

\* Sealing one more declared artifact.
LEMMA SealDeclared ==
  ASSUME Directory, Artifacts, NEW x, Seal(x), Declares(x)
  PROVE  Artifacts' /\ Extends(sealed, sealed')
<1>1. /\ Extends(sealed, sealed') /\ DOMAIN sealed' = DOMAIN sealed \cup {Len(sealed) + 1}
      /\ sealed'[Len(sealed) + 1] = x
  BY Sealing DEF Directory, Seal
<1> QED
  BY <1>1 DEF Artifacts, Extends, Declares

\* What a plan seals on top of a snapshot like the schema it starts from.
LEMMA ExecutableDeclared ==
  ASSUME AuthoringAssumption, NEW step \in Successors, NEW n \in DOMAIN Program[step],
         NEW before, Like(before, Schema[step[1]]), OrdinalsDiffer(before),
         NEW id, NEW seq, NEW parent
  PROVE  Declares(Executable(id, seq, parent, step, before, n))
<1>1. step[1] \in SchemaName /\ step[2] \in SchemaName
  BY DEF AuthoringAssumption
<1>2. \A o \in Schema[step[2]] : IsObject(o)
  BY <1>1 DEF AuthoringAssumption, WellFormed
<1>3. Like(PhysicalSnapshot(before, Schema[step[2]], Program[step][n].added), Schema[step[2]])
  BY <1>2, SnapshotLike
<1>4. OrdinalsDiffer(PhysicalSnapshot(before, Schema[step[2]], Program[step][n].added))
  <2>1. Program[step][n] \in Programs(Schema[step[1]], Schema[step[2]])
    BY DEF AuthoringAssumption
  <2>2. WellFormed(Schema[step[1]]) /\ WellFormed(Schema[step[2]])
    BY <1>1 DEF AuthoringAssumption
  <2> QED
    BY <2>1, <2>2, OrdinalsKept
<1> QED
  BY <1>1, <1>3, <1>4 DEF Declares, Executable

\* Where there is nothing, no ordinals are alike.
LEMMA NothingOrdered == OrdinalsDiffer({})
BY FS_EmptySet DEF OrdinalsDiffer, Of

\* Decoding checks those of a declared schema.
LEMMA DeclaredOrdered ==
  ASSUME NEW s, WellFormed(s)
  PROVE  OrdinalsDiffer(s)
BY DEF WellFormed, OrdinalsDiffer, Of

\* Whatever a step seals is declared: create, bootstrap and baseline are the only ones.
LEMMA ArtifactsKept ==
  ASSUME AuthoringAssumption, IInv, Artifacts, Reviews, [Next]_vars
  PROVE  Artifacts' /\ Extends(sealed, sealed')
<1> USE DEF IInv
<1>0. Artifacts /\ Reviews /\ Directory
  OBVIOUS
<1>1. ASSUME UNCHANGED sealed PROVE Artifacts' /\ Extends(sealed, sealed')
  BY <1>0, <1>1 DEF Artifacts, Extends, Declares
<1>2. ASSUME NEW p \in Process, Create(p) PROVE Artifacts' /\ Extends(sealed, sealed')
  <2> DEFINE tip == Tip(Chain)
  <2>0. PICK id \in FreshIds, step \in StepsFrom(tip) : \E n \in DOMAIN Program[step] :
          Seal(Executable(id, Len(Chain), tip, step, AfterOf(tip), n))
    BY <1>2 DEF Create
  <2>1. PICK n \in DOMAIN Program[step] :
          Seal(Executable(id, Len(Chain), tip, step, AfterOf(tip), n))
    BY <2>0
  <2>2. step \in Successors /\ step[1] = IF tip = 0 THEN "empty" ELSE sealed[tip].step[2]
    BY DEF StepsFrom
  <2>3. ValidChain /\ Chain \in Seq(Nat) /\ Fits(sealed, Chain)
    BY <1>0, <1>2, Verified DEF Create
  <2>4. tip # 0 => tip \in DOMAIN sealed
    BY <2>3 DEF Tip, Fits
  <2>5. Like(AfterOf(tip), Schema[step[1]]) /\ OrdinalsDiffer(AfterOf(tip))
    <3>1. CASE tip = 0
      BY <2>2, <3>1, SameLike, NothingOrdered DEF AfterOf, AuthoringAssumption
    <3>2. CASE tip # 0
      BY <2>2, <2>4, <3>2, <1>0 DEF AfterOf, Artifacts, Declares
    <3> QED
      BY <3>1, <3>2
  <2> HIDE DEF tip
  <2> QED
    BY <1>0, <2>1, <2>2, <2>5, ExecutableDeclared, SealDeclared
<1>3. ASSUME NEW p \in Process, Bootstrap(p) PROVE Artifacts' /\ Extends(sealed, sealed')
  <2>1. PICK step \in StepsFrom(0) : \E n \in DOMAIN Program[step] :
          Seal(Executable("schema-bootstrap", 0, 0, step, {}, n))
    BY <1>3 DEF Bootstrap
  <2>2. PICK n \in DOMAIN Program[step] :
          Seal(Executable("schema-bootstrap", 0, 0, step, {}, n))
    BY <2>1
  <2>3. step \in Successors /\ step[1] = "empty"
    BY DEF StepsFrom
  <2>4. Like({}, Schema[step[1]]) /\ OrdinalsDiffer({})
    BY <2>3, SameLike, NothingOrdered DEF AuthoringAssumption
  <2> QED
    BY <1>0, <2>2, <2>3, <2>4, ExecutableDeclared, SealDeclared
<1>4. ASSUME NEW p \in Process, RecordBaseline(p)
      PROVE  Artifacts' /\ Extends(sealed, sealed')
  <2>1. CASE UNCHANGED sealed
    BY <1>1, <2>1
  <2>2. CASE \E id \in Id : Seal(Baseline(id, process[p].schema, process[p].candidate))
    <3>1. PICK id \in Id : Seal(Baseline(id, process[p].schema, process[p].candidate))
      BY <2>2
    <3>2. process[p].schema \in SchemaName /\ process[p].candidate = Schema[process[p].schema]
      BY <1>0, <1>4 DEF RecordBaseline, Reviews
    <3>3. Declares(Baseline(id, process[p].schema, process[p].candidate))
      BY <3>2, SameLike, DeclaredOrdered DEF Declares, Baseline, AuthoringAssumption
    <3> QED
      BY <1>0, <3>1, <3>3, SealDeclared
  <2> QED
    BY <1>4, <2>1, <2>2 DEF RecordBaseline
<1>5. CASE UNCHANGED vars
  BY <1>1, <1>5 DEF vars
<1>6. ASSUME NEW p \in Process, CreateOrRecord(p) PROVE Artifacts' /\ Extends(sealed, sealed')
  BY <1>1, <1>2, <1>3, <1>4, <1>6 DEF CreateOrRecord, Capture, Abandon, WriteFile
<1>7. ASSUME NEW p \in Process, RunPending(p) \/ FailPhase(p) \/ Crash(p)
      PROVE  Artifacts' /\ Extends(sealed, sealed')
  BY <1>1, <1>7 DEF RunPending, FailPhase, Crash, Catch, Apply, AcquireLease, NextArtifact,
                    StopRun, RunPhase, RefusePhase
<1>8. ASSUME Operator PROVE Artifacts' /\ Extends(sealed, sealed')
  BY <1>1, <1>8 DEF Operator, ReconcileApplied, ReconcileRolledBack, RepairPhase, RemoveFile
<1> QED
  BY <1>5, <1>6, <1>7, <1>8 DEF Next

\* A process that does not begin a review.
LEMMA Unreviewed ==
  ASSUME Shaped, Reviews, NEW p \in Process, NEW r, Set(p, r), r.at # "review"
  PROVE  Reviews'
BY ProcessSet DEF Reviews, Is

\* A review begins on a declared schema and keeps it.
LEMMA ReviewsKept ==
  ASSUME AuthoringAssumption, IInv, Reviews, [Next]_vars
  PROVE  Reviews'
<1> USE DEF IInv
<1>0. Reviews /\ Shaped
  OBVIOUS
<1>1. ASSUME UNCHANGED process PROVE Reviews'
  BY <1>0, <1>1 DEF Reviews, Is
<1>2. ASSUME NEW p \in Process, Set(p, Idle) PROVE Reviews'
  BY <1>0, <1>2, Idles, Unreviewed
<1>3. ASSUME NEW p \in Process, NEW a, Set(p, [process[p] EXCEPT !.at = a]), a # "review"
      PROVE  Reviews'
  <2> DEFINE r == [process[p] EXCEPT !.at = a]
  <2>1. r.at = a
    BY GoingOn DEF Shaped
  <2> HIDE DEF r
  <2> QED
    BY <1>0, <1>3, <2>1, Unreviewed DEF r
<1>4. ASSUME NEW p \in Process, NEW d, Set(p, [Idle EXCEPT !.at = "write", !.draft = d])
      PROVE  Reviews'
  <2> DEFINE r == [Idle EXCEPT !.at = "write", !.draft = d]
  <2>1. r.at = "write"
    BY DEF Idle
  <2> HIDE DEF r
  <2> QED
    BY <1>0, <1>4, <2>1, Unreviewed DEF r
<1>5. ASSUME NEW p \in Process, NEW c, Set(p, [Idle EXCEPT !.at = "lease", !.own = c])
      PROVE  Reviews'
  <2> DEFINE r == [Idle EXCEPT !.at = "lease", !.own = c]
  <2>1. r.at = "lease"
    BY DEF Idle
  <2> HIDE DEF r
  <2> QED
    BY <1>0, <1>5, <2>1, Unreviewed DEF r
<1>6. ASSUME NEW p \in Process, Capture(p) PROVE Reviews'
  <2>1. PICK n \in Declared :
          Set(p, [Idle EXCEPT !.at = "review", !.schema = n, !.candidate = Schema[n]])
    BY <1>6 DEF Capture
  <2> DEFINE r == [Idle EXCEPT !.at = "review", !.schema = n, !.candidate = Schema[n]]
  <2>2. r.schema = n /\ r.candidate = Schema[n]
    BY DEF Idle
  <2>3. n \in SchemaName
    BY DEF Declared
  <2> HIDE DEF r
  <2>4. process'[p] = r /\ \A q \in Process : q # p => process'[q] = process[q]
    BY <1>0, <2>1, ProcessSet DEF r
  <2> QED
    BY <1>0, <2>2, <2>3, <2>4 DEF Reviews, Is
<1>7. ASSUME NEW p \in Process, CreateOrRecord(p) PROVE Reviews'
  BY <1>2, <1>4, <1>5, <1>6, <1>7
     DEF CreateOrRecord, Create, Bootstrap, RecordBaseline, Abandon, WriteFile
<1>8. ASSUME NEW p \in Process, RunPending(p) PROVE Reviews'
  <2>1. CASE Apply(p)
    BY <2>1, <1>5 DEF Apply
  <2>2. CASE AcquireLease(p)
    BY <2>2, <1>2, <1>3 DEF AcquireLease
  <2>3. CASE NextArtifact(p)
    BY <2>3, <1>1, <1>3 DEF NextArtifact
  <2>4. CASE RunPhase(p)
    BY <2>4, <1>1, <1>3 DEF RunPhase
  <2>5. CASE StopRun(p) \/ RefusePhase(p)
    BY <2>5, <1>2 DEF StopRun, RefusePhase, Catch, Release
  <2> QED
    BY <1>8, <2>1, <2>2, <2>3, <2>4, <2>5 DEF RunPending
<1>9. ASSUME NEW p \in Process, FailPhase(p) \/ Crash(p) PROVE Reviews'
  BY <1>9, <1>2 DEF FailPhase, Catch, Release, Crash
<1>10. ASSUME Operator PROVE Reviews'
  BY <1>1, <1>10 DEF Operator, ReconcileApplied, ReconcileRolledBack, RepairPhase, RemoveFile
<1>11. CASE UNCHANGED vars
  BY <1>1, <1>11 DEF vars
<1> QED
  BY <1>7, <1>8, <1>9, <1>10, <1>11 DEF Next

\* What a sealed artifact says does not change.
LEMMA SealedStays ==
  ASSUME Extends(sealed, sealed'), NEW d \in DOMAIN sealed
  PROVE  /\ d \in DOMAIN sealed' /\ From(d)' = From(d) /\ To(d)' = To(d)
         /\ Phases(d)' = Phases(d)
BY DEF Extends, From, To, Phases

\* Every step keeps the invariant.
LEMMA StepLossInv ==
  ASSUME AuthoringAssumption, NamesStay, IInv, LossInv, [Next]_vars
  PROVE  LossInv'
<1>0. IInv' /\ Artifacts' /\ Reviews' /\ Extends(sealed, sealed')
  BY StepIInv, ArtifactsKept, ReviewsKept DEF LossInv
<1>1. Open => attempt.digest \in DOMAIN sealed /\ attempt.done \in Nat
  BY DEF IInv, Attempts, Follows
<1>2. \A p \in Process : Is(p, "phase") => Open
  BY DEF IInv, Runs, Continues, Holds, Is
<1>3. \A p \in Process : Is(p, "phase")' => Open'
  BY <1>0 DEF IInv, Runs, Continues, Holds, Is
<1>4. ASSUME Quiet PROVE CatalogOf(live)' /\ Pursued' /\ Placed'
  <2>1. Open' => attempt' = attempt /\ Open
    BY <1>4 DEF Quiet, Open
  <2>2. Open' => /\ From(attempt.digest)' = From(attempt.digest)
                 /\ To(attempt.digest)' = To(attempt.digest)
                 /\ Phases(attempt.digest)' = Phases(attempt.digest)
    BY <2>1, <1>0, <1>1, SealedStays
  <2>3. CatalogOf(live)'
    BY <1>4 DEF Quiet, LossInv, CatalogOf
  <2>4. Pursued'
    BY <1>4, <2>1, <2>2 DEF Quiet, LossInv, Pursued
  <2>5. Placed'
    BY <1>3, <1>4, <2>1, <2>2 DEF Quiet, LossInv, Placed
  <2> QED
    BY <2>3, <2>4, <2>5
<1>5. ASSUME NEW p \in Process, NextArtifact(p) PROVE CatalogOf(live)' /\ Pursued' /\ Placed'
  <2>1. CASE Phases(Pending(p)) = << >>
    BY <1>4, <1>5, <2>1 DEF NextArtifact, Quiet, Is
  <2>2. CASE Phases(Pending(p)) # << >>
    <3>0. PICK d : d = Pending(p)
      OBVIOUS
    <3>1. /\ attempt' = [digest |-> d, done |-> 0] /\ live' = live /\ sealed' = sealed
          /\ Matches(live, sealed[d].before)
      BY <1>5, <2>2, <3>0 DEF NextArtifact, Starts
    <3>2. d \in DOMAIN sealed
      <4>1. attempt'.digest = d /\ Is(p, "phase")'
        <5>1. process'[p] = [process[p] EXCEPT !.at = "phase"]
          BY <1>5, <2>2, ProcessSet DEF NextArtifact, IInv
        <5>2. process'[p].at = "phase"
          BY <5>1, GoingOn DEF IInv, Shaped
        <5> QED
          BY <5>2, <3>1 DEF Is
      <4>2. Open'
        BY <4>1, <1>3
      <4> QED
        BY <4>1, <4>2, <1>0, <3>1 DEF IInv, Attempts, Follows
    <3>3. Like(sealed[d].before, From(d)) /\ WellFormed(From(d))
      BY <3>2 DEF LossInv, Artifacts, Declares, From, AuthoringAssumption
    <3>4. OnlyKnown(live, From(d), To(d))
      BY <3>1, <3>3, MatchesKnown DEF LossInv
    <3>5. 1 \in DOMAIN Phases(d)
      BY <2>2, <3>0, <3>2, PhasesOf DEF LossInv
    <3>6. /\ attempt'.digest = d /\ attempt'.done = 0
          /\ From(d)' = From(d) /\ To(d)' = To(d) /\ Phases(d)' = Phases(d)
      BY <1>0, <3>1, <3>2, SealedStays
    <3>7. Pursued'
      BY <3>1, <3>4, <3>6 DEF Pursued, From, To
    <3>8. Placed'
      BY <3>1, <3>5, <3>6 DEF Placed, Phases
    <3> QED
      BY <3>1, <3>7, <3>8 DEF LossInv, CatalogOf
  <2> QED
    BY <2>1, <2>2
<1>6. ASSUME Open, attempt.done + 1 \in DOMAIN Phases(attempt.digest),
             RunAll(live, CurrentPhase.statements).ok,
             live' = RunAll(live, CurrentPhase.statements).live,
             attempt' = [attempt EXCEPT !.done = @ + 1] \/ attempt' = NoAttempt
      PROVE  CatalogOf(live)' /\ Pursued'
  <2>1. CatalogOf(live') /\ OnlyKnown(live', From(attempt.digest), To(attempt.digest))
    BY <1>6, PhaseStep
  <2>2. Open' => attempt'.digest = attempt.digest
    BY <1>6 DEF Open, IInv, Attempts
  <2>3. Open' => Schema[sealed'[attempt'.digest].step[1]] = From(attempt.digest)
                 /\ Schema[sealed'[attempt'.digest].step[2]] = To(attempt.digest)
    BY <2>2, <1>0, <1>1, <1>6 DEF Extends, From, To
  <2> QED
    BY <2>1, <2>3 DEF CatalogOf, Pursued, From, To
<1>7. ASSUME NEW p \in Process, RunPhase(p) PROVE CatalogOf(live)' /\ Pursued' /\ Placed'
  <2>1. /\ Open /\ attempt.done + 1 \in DOMAIN Phases(attempt.digest)
    BY <1>2, <1>7 DEF RunPhase, LossInv, Placed
  <2>2. /\ RunAll(live, CurrentPhase.statements).ok
        /\ live' = RunAll(live, CurrentPhase.statements).live /\ sealed' = sealed
        /\ \/ attempt' = NoAttempt
           \/ /\ attempt' = [attempt EXCEPT !.done = @ + 1]
              /\ attempt.done + 1 # Len(Phases(attempt.digest))
    BY <1>7 DEF RunPhase, PhaseRuns
  <2>3. CatalogOf(live)' /\ Pursued'
    BY <1>6, <2>1, <2>2
  <2>4. Placed'
    <3>1. CASE attempt' = NoAttempt
      BY <3>1, <1>3 DEF Placed, Open
    <3>2. CASE attempt' = [attempt EXCEPT !.done = @ + 1]
               /\ attempt.done + 1 # Len(Phases(attempt.digest))
      <4>1. attempt'.digest = attempt.digest /\ attempt'.done = attempt.done + 1
        BY <3>2 DEF IInv, Attempts
      <4>2. attempt.done + 2 \in DOMAIN Phases(attempt.digest)
        <5>1. /\ Len(Phases(attempt.digest)) \in Nat
              /\ DOMAIN Phases(attempt.digest) = 1 .. Len(Phases(attempt.digest))
          BY <2>1, <1>1, PhasesOf DEF LossInv
        <5>2. attempt.done \in Nat
          BY <2>1, <1>1
        <5> QED
          BY <2>1, <3>2, <5>1, <5>2
      <4> QED
        BY <4>1, <4>2, <1>1, <2>1, <2>2 DEF Placed, Phases
    <3> QED
      BY <2>2, <3>1, <3>2
  <2> QED
    BY <2>3, <2>4
<1>8. ASSUME RepairPhase PROVE CatalogOf(live)' /\ Pursued' /\ Placed'
  <2>1. Open /\ lease = NoOne /\ process' = process
    BY <1>8 DEF RepairPhase
  <2>2. attempt.done + 1 \in DOMAIN Phases(attempt.digest)
    BY <1>1, <1>8, PhasesOf DEF RepairPhase, LossInv
  <2>3. CatalogOf(live)' /\ Pursued'
    BY <1>6, <1>8, <2>1, <2>2 DEF RepairPhase
  <2>4. \A p \in Process : ~Is(p, "phase")
    BY <2>1 DEF IInv, Runs, Holds, Is, AuthoringAssumption
  <2>5. Placed'
    BY <2>1, <2>4 DEF Placed, Is
  <2> QED
    BY <2>3, <2>5
<1> QED
  BY <1>0, <1>4, <1>5, <1>7, <1>8, QuietSteps DEF LossInv

\* Every artifact ever sealed leads from one declared schema to another, and its
\* snapshots have their objects: create starts from the tip, bootstrap from
\* nothing, and baseline seals what it captured (cli.ts, baseline/index.ts).
THEOREM ArtifactInvariance == Spec => [](IInv /\ Artifacts /\ Reviews)
<1>1. Init => IInv /\ Artifacts /\ Reviews
  BY InitIInv, InitLossInv, AuthoringAssumption DEF LossInv
<1>2. IInv /\ Artifacts /\ Reviews /\ [Next]_vars => (IInv /\ Artifacts /\ Reviews)'
  BY StepIInv, ArtifactsKept, ReviewsKept, AuthoringAssumption
<1> QED
  BY <1>1, <1>2, PTL DEF Spec

\* What decoding asks of the columns, of every artifact.
SealedOrdinalsDiffer ==
  \A d \in DOMAIN sealed : OrdinalsDiffer(sealed[d].before) /\ OrdinalsDiffer(sealed[d].after)

\* The snapshots of every artifact ever sealed can be decoded again: no two columns
\* of a table have one ordinal, along any chain of migrations, whatever columns
\* they add and drop and in whatever order (column-order.ts, complete.ts).
THEOREM SealedOrdinalsAlwaysDiffer == Spec => []SealedOrdinalsDiffer
<1>1. Artifacts => SealedOrdinalsDiffer
  BY DEF Artifacts, Declares, SealedOrdinalsDiffer
<1> QED
  BY <1>1, ArtifactInvariance, PTL

\* The invariant of the artifacts and the database holds in every reachable state.
THEOREM LossInvariance ==
  ASSUME NamesStay
  PROVE  Spec => [](IInv /\ LossInv)
<1>1. Init => IInv /\ LossInv
  BY InitIInv, InitLossInv, AuthoringAssumption
<1>2. IInv /\ LossInv /\ [Next]_vars => (IInv /\ LossInv)'
  BY StepIInv, StepLossInv, AuthoringAssumption
<1> QED
  BY <1>1, <1>2, PTL DEF Spec

\* While no schema gives a name away that it still needs, a column is lost only to
\* the phase that removes this very column, whatever processes, faults, orders of
\* the planner and interrupted programs there are (diff.ts, program.ts, emitter.ts).
THEOREM DataLossAlwaysDeclared ==
  ASSUME NamesStay
  PROVE  Spec => DataLossIsDeclared
<1>1. ASSUME IInv, LossInv, [Next]_vars, NEW c \in Of(live, "column"), Vanishes(c)
      PROVE  Open /\ \E op \in CurrentPhase.members : Removes(op, c)
  <2>1. live' # live
    BY <1>1 DEF Vanishes, Of
  <2>2. ~Quiet /\ \A p \in Process : ~NextArtifact(p)
    BY <2>1 DEF Quiet, NextArtifact
  <2>3. CASE \E p \in Process : RunPhase(p)
    <3>1. PICK p \in Process : RunPhase(p)
      BY <2>3
    <3>2. Open /\ attempt.done + 1 \in DOMAIN Phases(attempt.digest)
      BY <1>1, <3>1 DEF RunPhase, LossInv, Placed, IInv, Runs, Continues, Holds, Is
    <3>3. RunAll(live, CurrentPhase.statements).ok
          /\ live' = RunAll(live, CurrentPhase.statements).live
      BY <3>1 DEF RunPhase, PhaseRuns
    <3> QED
      BY <1>1, <3>2, <3>3, PhaseStep, AuthoringAssumption
  <2>4. CASE RepairPhase
    <3>1. attempt.digest \in DOMAIN sealed /\ attempt.done \in Nat /\ Open
      BY <1>1, <2>4 DEF RepairPhase, IInv, Attempts, Follows
    <3>2. attempt.done + 1 \in DOMAIN Phases(attempt.digest)
      BY <1>1, <3>1, <2>4, PhasesOf, AuthoringAssumption DEF RepairPhase, LossInv
    <3> QED
      BY <1>1, <2>4, <3>1, <3>2, PhaseStep, AuthoringAssumption DEF RepairPhase
  <2> QED
    BY <1>1, <2>2, <2>3, <2>4, QuietSteps
<1>2. IInv /\ LossInv /\ [Next]_vars =>
        [\A c \in Of(live, "column") : Vanishes(c) =>
           Open /\ \E op \in CurrentPhase.members : Removes(op, c)]_vars
  BY <1>1
<1> QED
  BY <1>2, LossInvariance, PTL DEF DataLossIsDeclared, Spec

=============================================================================
