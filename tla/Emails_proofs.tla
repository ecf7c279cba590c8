---------------------------- MODULE Emails_proofs ----------------------------
(***************************************************************************)
(* The registry of verification codes for every number of addresses, codes *)
(* and requests.  Emails has no next-state relation of its own; the lemmas *)
(* below are about its operations, and ServerState_proofs composes them.   *)
(***************************************************************************)
EXTENDS Emails, TLAPS

-----------------------------------------------------------------------------
(* A request that sends or enters a code has drawn it; one that is about   *)
(* to remove an entry has read a code there.                               *)
JobsDrawn ==
  \A p \in Proc :
    /\ at[p] \in {"sending", "insert", "remove"} => job[p].code \in drawn
    /\ at[p] = "compare" => job[p].code \in drawn \cup {NoCode}

Entered == \A e \in Email : registry[e].code \in drawn \cup {NoCode}

(* A code on its way to the registry is nowhere else. *)
OnlyHere ==
  \A p \in Proc : at[p] \in {"sending", "insert"} =>
    /\ job[p].code \notin spent
    /\ \A e \in Email : registry[e].code # job[p].code
    /\ \A q \in Proc \ {p} :
         at[q] \in {"sending", "insert", "remove"} => job[q].code # job[p].code

(* A code is entered for one address, and nobody removes it for another.   *)
OneAddress ==
  /\ \A e, f \in Email : registry[e].code = registry[f].code =>
       e = f \/ registry[e].code = NoCode
  /\ \A p \in Proc : at[p] = "remove" =>
       \A e \in Email : registry[e].code = job[p].code => e = job[p].email

RaceNoted ==
  \A p \in Proc : at[p] = "remove" /\ ~raced[p] => registry[job[p].email].code = job[p].code

AloneKnown ==
  \A p \in Proc : at[p] \in {"sending", "insert"} /\ alone[p] =>
    /\ \A q \in Proc \ {p} : ~Registers(q, job[p].email)
    /\ at[p] = "insert" => latest[job[p].email] = job[p].code

Codes == Entered /\ OnlyHere /\ OneAddress /\ SpentCodesAreGone
EmailInv == EmailTypeOK /\ JobsDrawn /\ Codes /\ RaceNoted /\ AloneKnown

LEMMA NoJobIsNone == NoJob \notin Job
BY DEF NoJob, Job

LEMMA JobFields ==
  ASSUME EmailTypeOK, NEW p \in Proc, at[p] \in Registering \cup Verifying
  PROVE  /\ job[p] \in Job
         /\ job[p].email \in Email /\ job[p].code \in Code \cup {NoCode} /\ job[p].expires \in Nat
<1>1. job[p] \in Job
  BY DEF EmailTypeOK
<1>2. QED
  BY <1>1 DEF Job

LEMMA EntryFields ==
  ASSUME EmailTypeOK, NEW e \in Email
  PROVE  /\ registry[e].code \in Code \cup {NoCode}
         /\ registry[e].code = NoCode <=> registry[e] = NoEntry
BY CodeIsCode DEF EmailTypeOK, Entry, NoEntry

LEMMA EmailInitInv == EmailInit /\ clock = 0 => EmailInv
BY CodeIsCode DEF EmailInit, EmailInv, EmailTypeOK, JobsDrawn, Codes, Entered, OnlyHere, OneAddress,
   SpentCodesAreGone, RaceNoted, AloneKnown, NoEntry, Registering, Verifying

(* A request without a job begins, ends or goes on to something else.      *)
LEMMA BeginKeeps ==
  ASSUME EmailInv, NEW p \in Proc, at[p] = "idle",
         NEW next \in {"draw", "compare", "lock"}, Goto(p, next),
         \/ next = "lock" /\ UNCHANGED job
         \/ \E e \in Email, c \in drawn \cup {NoCode} :
              /\ next \in {"draw", "compare"}
              /\ job' = [job EXCEPT ![p] = [email |-> e, code |-> c, expires |-> 0]],
         UNCHANGED <<clock, registry, held, drawn, mailed, latest, spent, raced, alone>>
  PROVE  EmailInv'
<1>1. at' = [at EXCEPT ![p] = next] /\ at'[p] = next /\ next \notin {"sending", "insert", "remove"}
  BY DEF Goto, EmailInv, EmailTypeOK
<1>2. \A q \in Proc \ {p} : at'[q] = at[q] /\ job'[q] = job[q]
  BY DEF Goto, EmailInv, EmailTypeOK
<1>3. /\ job' \in [Proc -> Job \cup {NoJob}]
      /\ next \in {"draw", "compare"} <=> job'[p] # NoJob
      /\ next = "compare" => job'[p].code \in drawn \cup {NoCode}
  <2>1. CASE next = "lock" /\ UNCHANGED job
    BY <2>1 DEF EmailInv, EmailTypeOK, Registering, Verifying
  <2>2. ASSUME NEW e \in Email, NEW c \in drawn \cup {NoCode}, next \in {"draw", "compare"},
               job' = [job EXCEPT ![p] = [email |-> e, code |-> c, expires |-> 0]]
        PROVE  /\ job' \in [Proc -> Job \cup {NoJob}]
               /\ next \in {"draw", "compare"} <=> job'[p] # NoJob
               /\ next = "compare" => job'[p].code \in drawn \cup {NoCode}
    <3>1. PICK j : j = [email |-> e, code |-> c, expires |-> 0]
      OBVIOUS
    <3>2. j \in Job /\ j # NoJob /\ j.code = c
      BY <2>2, <3>1, NoJobIsNone DEF Job, EmailInv, EmailTypeOK
    <3>3. QED
      BY <2>2, <3>1, <3>2 DEF EmailInv, EmailTypeOK
  <2>3. QED
    BY <2>1, <2>2
<1>4. EmailTypeOK'
  BY <1>1, <1>2, <1>3 DEF EmailInv, EmailTypeOK, Registering, Verifying
<1>5. JobsDrawn'
  BY <1>1, <1>2, <1>3 DEF EmailInv, JobsDrawn
<1>6. Codes'
  BY <1>1, <1>2 DEF EmailInv, Codes, Entered, OnlyHere, OneAddress, SpentCodesAreGone
<1>7. RaceNoted' /\ AloneKnown'
  BY <1>1, <1>2 DEF EmailInv, RaceNoted, AloneKnown, Registers
<1>8. QED
  BY <1>4, <1>5, <1>6, <1>7 DEF EmailInv

LEMMA DeliveredKeeps ==
  ASSUME EmailInv, NEW p \in Proc, at[p] = "sending", Delivered(p)
  PROVE  /\ mailed' \subseteq Email \X drawn'
         /\ latest' \in [Email -> drawn' \cup {NoCode}]
         /\ drawn' = drawn
         /\ latest'[job[p].email] = job[p].code
         /\ \A q \in Proc \ {p} : at[q] = "insert" /\ alone[q] =>
              latest'[job[q].email] = latest[job[q].email]
<1>1. job[p].email \in Email /\ job[p].code \in drawn
  BY JobFields DEF EmailInv, JobsDrawn, Registering
<1>2. /\ mailed' = mailed \cup {<<job[p].email, job[p].code>>}
      /\ latest' = [latest EXCEPT ![job[p].email] = job[p].code]
      /\ drawn' = drawn
  BY DEF Delivered
<1>3. /\ mailed \subseteq Email \X drawn
      /\ latest \in [Email -> drawn \cup {NoCode}]
  BY DEF EmailInv, EmailTypeOK
<1>4. \A q \in Proc \ {p} : at[q] = "insert" /\ alone[q] => job[q].email # job[p].email
  BY DEF EmailInv, AloneKnown, Registers
<1>5. \A q \in Proc : at[q] = "insert" => job[q].email \in Email
  BY JobFields DEF EmailInv, Registering
<1>6. QED
  BY <1>1, <1>2, <1>3, <1>4, <1>5

(* A request ends and leaves the registry as it is; its mail may be out.   *)
LEMMA EndKeeps ==
  ASSUME EmailInv, NEW p \in Proc, End(p), UNCHANGED <<clock, registry, held, spent>>,
         UNCHANGED mail \/ (at[p] = "sending" /\ Delivered(p))
  PROVE  EmailInv'
<1>1. /\ at' = [at EXCEPT ![p] = "idle"] /\ job' = [job EXCEPT ![p] = NoJob]
      /\ raced' = [raced EXCEPT ![p] = FALSE] /\ alone' = [alone EXCEPT ![p] = FALSE]
  BY DEF End, Goto
<1>2. /\ at'[p] = "idle" /\ job'[p] = NoJob
      /\ \A q \in Proc \ {p} : /\ at'[q] = at[q] /\ job'[q] = job[q]
                               /\ raced'[q] = raced[q] /\ alone'[q] = alone[q]
  BY <1>1 DEF EmailInv, EmailTypeOK
<1>3. /\ drawn' = drawn
      /\ mailed' \subseteq Email \X drawn
      /\ latest' \in [Email -> drawn \cup {NoCode}]
      /\ \A q \in Proc \ {p} : at[q] = "insert" /\ alone[q] =>
           latest'[job[q].email] = latest[job[q].email]
  BY DeliveredKeeps DEF mail, EmailInv, EmailTypeOK
<1>4. EmailTypeOK'
  BY <1>1, <1>2, <1>3 DEF EmailInv, EmailTypeOK, Registering, Verifying
<1>5. JobsDrawn' /\ Codes'
  BY <1>2, <1>3 DEF EmailInv, JobsDrawn, Codes, Entered, OnlyHere, OneAddress, SpentCodesAreGone
<1>6. RaceNoted' /\ AloneKnown'
  BY <1>2, <1>3 DEF EmailInv, RaceNoted, AloneKnown, Registers
<1>7. QED
  BY <1>4, <1>5, <1>6 DEF EmailInv

LEMMA DrawKeeps ==
  ASSUME EmailInv, NEW p \in Proc, NEW c \in Code, Draw(p, c)
  PROVE  EmailInv'
<1>1. PICK e : e = job[p].email
  OBVIOUS
<1>2. /\ at[p] = "draw" /\ c \notin drawn /\ drawn' = drawn \cup {c}
      /\ job' = [job EXCEPT ![p].code = c, ![p].expires = clock + Exp]
      /\ at' = [at EXCEPT ![p] = "sending"]
      /\ alone' = [q \in Proc |-> IF q = p THEN ~\E r \in Proc : Registers(r, e)
                                  ELSE alone[q] /\ ~Registers(q, e)]
      /\ UNCHANGED <<clock, registry, held, mailed, latest, spent, raced>>
  BY <1>1 DEF Draw, Goto
<1>3. job[p] \in Job /\ e \in Email
  BY <1>1, <1>2, JobFields DEF EmailInv, Registering
<1>4. /\ job'[p] \in Job /\ job'[p].email = e /\ job'[p].code = c
      /\ at'[p] = "sending"
      /\ \A q \in Proc \ {p} : job'[q] = job[q] /\ at'[q] = at[q]
  <2>1. clock + Exp \in Nat
    BY ExpType DEF EmailInv, EmailTypeOK
  <2>2. QED
    BY <1>1, <1>2, <1>3, <2>1 DEF EmailInv, EmailTypeOK, Job
<1>5. EmailTypeOK'
  <2>1. /\ job' \in [Proc -> Job \cup {NoJob}]
        /\ at' \in [Proc -> {"idle", "lock", "status"} \cup Registering \cup Verifying]
        /\ alone' \in [Proc -> BOOLEAN]
    BY <1>2, <1>3, <1>4 DEF EmailInv, EmailTypeOK, Registering
  <2>2. \A q \in Proc : at'[q] \in Registering \cup Verifying <=> job'[q] # NoJob
    BY <1>4, NoJobIsNone DEF EmailInv, EmailTypeOK, Registering
  <2>3. drawn' \subseteq Code /\ mailed' \subseteq Email \X drawn' /\ spent' \subseteq drawn'
    BY <1>2 DEF EmailInv, EmailTypeOK
  <2>4. latest' \in [Email -> drawn' \cup {NoCode}]
    BY <1>2 DEF EmailInv, EmailTypeOK
  <2>5. QED
    BY <1>2, <2>1, <2>2, <2>3, <2>4 DEF EmailInv, EmailTypeOK
<1>drawn. /\ drawn' = drawn \cup {c} /\ c \in drawn'
       /\ registry' = registry /\ spent' = spent /\ raced' = raced /\ latest' = latest
  BY <1>2
<1>6. JobsDrawn'
  <2>1. JobsDrawn
    BY DEF EmailInv
  <2>2. QED
    BY <1>drawn, <1>4, <2>1 DEF JobsDrawn
<1>7. /\ c # NoCode /\ c \notin spent /\ \A f \in Email : registry[f].code # c
      /\ \A q \in Proc : at[q] \in {"sending", "insert", "remove"} => job[q].code # c
  BY <1>2, CodeIsCode DEF EmailInv, Codes, Entered, JobsDrawn, EmailTypeOK
<1>8. Entered' /\ SpentCodesAreGone'
  BY <1>drawn DEF EmailInv, Codes, Entered, SpentCodesAreGone
<1>9. OnlyHere'
  <2>1. OnlyHere
    BY DEF EmailInv, Codes
  <2>2. QED
    BY <1>drawn, <1>4, <1>7, <2>1 DEF OnlyHere
<1>10. OneAddress' /\ RaceNoted'
  <2>1. OneAddress /\ RaceNoted
    BY DEF EmailInv, Codes
  <2>2. QED
    BY <1>drawn, <1>4, <2>1 DEF OneAddress, RaceNoted
<1>11. AloneKnown'
  <2>1. alone'[p] => \A r \in Proc : at[r] \in {"sending", "insert"} => job[r].email # e
    BY <1>2 DEF Registers
  <2>2. \A q \in Proc \ {p} : alone'[q] =>
          alone[q] /\ (at[q] \in {"sending", "insert"} => job[q].email # e)
    BY <1>2 DEF EmailInv, EmailTypeOK, Registers
  <2>3. AloneKnown
    BY DEF EmailInv
  <2>4. ASSUME NEW q \in Proc, at'[q] \in {"sending", "insert"}, alone'[q]
        PROVE  /\ \A r \in Proc \ {q} : at'[r] \in {"sending", "insert"} => job'[r].email # job'[q].email
               /\ at'[q] = "insert" => latest'[job'[q].email] = job'[q].code
    <3>1. CASE q = p
      BY <1>4, <2>1, <2>4, <3>1
    <3>2. CASE q # p
      <4>1. /\ at[q] \in {"sending", "insert"} /\ alone[q] /\ job[q].email # e
            /\ job'[q] = job[q] /\ at'[q] = at[q]
        BY <1>4, <2>2, <2>4, <3>2
      <4>2. /\ \A r \in Proc \ {q} : at[r] \in {"sending", "insert"} => job[r].email # job[q].email
            /\ at[q] = "insert" => latest[job[q].email] = job[q].code
        BY <2>3, <4>1 DEF AloneKnown, Registers
      <4>3. QED
        BY <1>4, <1>drawn, <4>1, <4>2
    <3>3. QED
      BY <3>1, <3>2
  <2>5. QED
    BY <2>4 DEF AloneKnown, Registers
<1>12. QED
  BY <1>5, <1>6, <1>8, <1>9, <1>10, <1>11 DEF EmailInv, Codes

LEMMA DeliverKeeps ==
  ASSUME EmailInv, NEW p \in Proc, Deliver(p)
  PROVE  EmailInv'
<1>1. /\ at[p] = "sending" /\ at' = [at EXCEPT ![p] = "insert"] /\ Delivered(p)
      /\ UNCHANGED <<clock, registry, job, held, spent, raced, alone>>
  BY DEF Deliver, Goto, ghost
<1>2. at'[p] = "insert" /\ \A q \in Proc \ {p} : at'[q] = at[q]
  BY <1>1 DEF EmailInv, EmailTypeOK
<1>3. /\ mailed' \subseteq Email \X drawn'
      /\ latest' \in [Email -> drawn' \cup {NoCode}]
      /\ drawn' = drawn
      /\ latest'[job[p].email] = job[p].code
      /\ \A q \in Proc \ {p} : at[q] = "insert" /\ alone[q] =>
           latest'[job[q].email] = latest[job[q].email]
  BY <1>1, DeliveredKeeps
<1>4. EmailTypeOK'
  BY <1>1, <1>2, <1>3 DEF EmailInv, EmailTypeOK, Registering, Verifying
<1>5. JobsDrawn' /\ Codes'
  BY <1>1, <1>2, <1>3
     DEF EmailInv, JobsDrawn, Codes, Entered, OnlyHere, OneAddress, SpentCodesAreGone
<1>6. RaceNoted' /\ AloneKnown'
  BY <1>1, <1>2, <1>3 DEF EmailInv, RaceNoted, AloneKnown, Registers
<1>7. QED
  BY <1>4, <1>5, <1>6 DEF EmailInv

(* What both halves that write have in common: the request ends, and those *)
(* who are about to remove the same entry are told.                        *)
LEMMA RaceEnds ==
  ASSUME EmailTypeOK, NEW p \in Proc, NEW e \in Email, Race(p, e)
  PROVE  /\ at'[p] = "idle" /\ job'[p] = NoJob /\ alone'[p] = FALSE
         /\ \A q \in Proc \ {p} :
              /\ at'[q] = at[q] /\ job'[q] = job[q] /\ alone'[q] = alone[q]
              /\ ~raced'[q] => ~raced[q] /\ (at[q] = "remove" => job[q].email # e)
         /\ at' \in [Proc -> {"idle", "lock", "status"} \cup Registering \cup Verifying]
         /\ job' \in [Proc -> Job \cup {NoJob}]
         /\ raced' \in [Proc -> BOOLEAN] /\ alone' \in [Proc -> BOOLEAN]
         /\ \A q \in Proc : at'[q] \in Registering \cup Verifying <=> job'[q] # NoJob
BY DEF Race, Goto, EmailTypeOK, Registering, Verifying

LEMMA InsertKeeps ==
  ASSUME EmailInv, NEW p \in Proc, Insert(p)
  PROVE  EmailInv'
<1>1. PICK e, c : e = job[p].email /\ c = job[p].code
  OBVIOUS
<1>2. at[p] = "insert" /\ e \in Email /\ c \in Code \cup {NoCode} /\ job[p].expires \in Nat
  BY <1>1, JobFields DEF Insert, EmailInv, Registering
<1>3. c \in drawn /\ c \in Code
  BY <1>1, <1>2 DEF EmailInv, JobsDrawn, EmailTypeOK
<1>4. PICK new : new = [code |-> c, expires |-> job[p].expires]
  OBVIOUS
<1>5. new \in Entry /\ new.code = c
  BY <1>2, <1>3, <1>4 DEF Entry
<1>6. /\ registry' = [registry EXCEPT ![e] = new]
      /\ Race(p, e)
      /\ UNCHANGED <<clock, held, drawn, mailed, latest, spent>>
  BY <1>1, <1>4 DEF Insert, mail
<1>7. \A f \in Email : registry'[f] = IF f = e THEN new ELSE registry[f]
  BY <1>2, <1>6 DEF EmailInv, EmailTypeOK
<1>8. /\ at'[p] = "idle" /\ job'[p] = NoJob
      /\ \A q \in Proc \ {p} :
           /\ at'[q] = at[q] /\ job'[q] = job[q] /\ alone'[q] = alone[q]
           /\ ~raced'[q] => ~raced[q] /\ (at[q] = "remove" => job[q].email # e)
  BY <1>2, <1>6, RaceEnds DEF EmailInv
<1>9. EmailTypeOK'
  <2>1. registry' \in [Email -> Entry \cup {NoEntry}]
    BY <1>2, <1>5, <1>6 DEF EmailInv, EmailTypeOK
  <2>2. QED
    BY <1>2, <1>6, <2>1, RaceEnds DEF EmailInv, EmailTypeOK
<1>10. /\ c \notin spent /\ \A f \in Email : registry[f].code # c
       /\ \A q \in Proc \ {p} :
            at[q] \in {"sending", "insert", "remove"} => job[q].code # c
  BY <1>1, <1>2 DEF EmailInv, Codes, OnlyHere
<1>11. JobsDrawn' /\ Entered' /\ SpentCodesAreGone'
  BY <1>3, <1>5, <1>6, <1>7, <1>8, <1>10
     DEF EmailInv, JobsDrawn, Codes, Entered, SpentCodesAreGone
<1>12. OnlyHere'
  <2>1. OnlyHere
    BY DEF EmailInv, Codes
  <2>2. QED
    BY <1>5, <1>6, <1>7, <1>8, <1>10, <2>1 DEF OnlyHere
<1>13. OneAddress'
  <2>1. OneAddress
    BY DEF EmailInv, Codes
  <2>2. QED
    BY <1>5, <1>7, <1>8, <1>10, <2>1 DEF OneAddress
<1>14. RaceNoted'
  <2>1. \A q \in Proc : at[q] = "remove" => job[q].email \in Email
    BY JobFields DEF EmailInv, Verifying
  <2>2. QED
    BY <1>7, <1>8, <2>1 DEF EmailInv, RaceNoted
<1>15. AloneKnown'
  BY <1>6, <1>8 DEF EmailInv, AloneKnown, Registers
<1>16. QED
  BY <1>9, <1>11, <1>12, <1>13, <1>14, <1>15 DEF EmailInv, Codes

LEMMA RemoveKeeps ==
  ASSUME EmailInv, NEW p \in Proc, Remove(p)
  PROVE  EmailInv'
<1>1. PICK e, c : e = job[p].email /\ c = job[p].code
  OBVIOUS
<1>2. at[p] = "remove" /\ e \in Email
  BY <1>1, JobFields DEF Remove, EmailInv, Verifying
<1>3. c \in drawn
  BY <1>1, <1>2 DEF EmailInv, JobsDrawn
<1>4. /\ registry' = [registry EXCEPT ![e] = NoEntry]
      /\ spent' = spent \cup {c}
      /\ Race(p, e)
      /\ UNCHANGED <<clock, held, drawn, mailed, latest>>
  BY <1>1 DEF Remove, mail
<1>5. \A f \in Email : registry'[f] = IF f = e THEN NoEntry ELSE registry[f]
  BY <1>2, <1>4 DEF EmailInv, EmailTypeOK
<1>6. /\ at'[p] = "idle" /\ job'[p] = NoJob
      /\ \A q \in Proc \ {p} :
           /\ at'[q] = at[q] /\ job'[q] = job[q] /\ alone'[q] = alone[q]
           /\ ~raced'[q] => ~raced[q] /\ (at[q] = "remove" => job[q].email # e)
  BY <1>2, <1>4, RaceEnds DEF EmailInv
<1>7. EmailTypeOK'
  <2>1. registry' \in [Email -> Entry \cup {NoEntry}] /\ spent' \subseteq drawn
    BY <1>2, <1>3, <1>4 DEF EmailInv, EmailTypeOK
  <2>2. QED
    BY <1>2, <1>4, <2>1, RaceEnds DEF EmailInv, EmailTypeOK
<1>8. /\ NoEntry.code = NoCode /\ NoCode \notin drawn
      /\ \A q \in Proc : at[q] \in {"sending", "insert"} => job[q].code \in drawn
      /\ \A q \in Proc : at[q] \in {"sending", "insert"} => job[q].code # c
  BY <1>1, <1>2, CodeIsCode DEF NoEntry, EmailInv, EmailTypeOK, JobsDrawn, Codes, OnlyHere
<1>9. JobsDrawn' /\ Entered'
  BY <1>4, <1>5, <1>6, <1>8 DEF EmailInv, JobsDrawn, Codes, Entered
<1>10. SpentCodesAreGone'
  <2>1. \A f \in Email : registry[f].code = c => f = e
    BY <1>1, <1>2 DEF EmailInv, Codes, OneAddress
  <2>2. spent \subseteq drawn
    BY DEF EmailInv, EmailTypeOK
  <2>3. QED
    BY <1>3, <1>4, <1>5, <1>8, <2>1, <2>2 DEF EmailInv, Codes, SpentCodesAreGone
<1>11. OnlyHere'
  <2>1. OnlyHere
    BY DEF EmailInv, Codes
  <2>2. QED
    BY <1>4, <1>5, <1>6, <1>8, <2>1 DEF OnlyHere
<1>12. OneAddress'
  <2>1. OneAddress /\ \A q \in Proc : at[q] = "remove" => job[q].code \in drawn
    BY DEF EmailInv, Codes, JobsDrawn
  <2>2. QED
    BY <1>5, <1>6, <1>8, <2>1 DEF OneAddress
<1>13. RaceNoted'
  <2>1. \A q \in Proc : at[q] = "remove" => job[q].email \in Email
    BY JobFields DEF EmailInv, Verifying
  <2>2. QED
    BY <1>5, <1>6, <2>1 DEF EmailInv, RaceNoted
<1>14. AloneKnown'
  BY <1>4, <1>6 DEF EmailInv, AloneKnown, Registers
<1>15. QED
  BY <1>7, <1>9, <1>10, <1>11, <1>12, <1>13, <1>14 DEF EmailInv, Codes

LEMMA CompareKeeps ==
  ASSUME EmailInv, NEW p \in Proc, Compare(p)
  PROVE  EmailInv'
<1>1. CASE ~Matches(p)
  BY <1>1, EndKeeps DEF Compare
<1>2. CASE Matches(p)
  <2>1. PICK e, c : e = job[p].email /\ c = job[p].code
    OBVIOUS
  <2>2. /\ at[p] = "compare" /\ at' = [at EXCEPT ![p] = "remove"]
        /\ registry[e] # NoEntry /\ registry[e].code = c
        /\ UNCHANGED <<clock, registry, job, held, drawn, mailed, latest, spent, raced, alone>>
    BY <1>2, <2>1 DEF Compare, Goto, Matches, mail, ghost, End, EmailInv, EmailTypeOK
  <2>3. e \in Email /\ c \in drawn
    <3>1. e \in Email
      BY <2>1, <2>2, JobFields DEF EmailInv, Verifying
    <3>2. c # NoCode
      BY <2>2, <3>1, EntryFields DEF EmailInv
    <3>3. QED
      BY <2>2, <3>1, <3>2 DEF EmailInv, Codes, Entered
  <2>4. at'[p] = "remove" /\ \A q \in Proc \ {p} : at'[q] = at[q]
    BY <2>2 DEF EmailInv, EmailTypeOK
  <2>5. EmailTypeOK'
    BY <2>2, <2>4 DEF EmailInv, EmailTypeOK, Verifying
  <2>6. JobsDrawn' /\ Entered' /\ SpentCodesAreGone' /\ RaceNoted' /\ AloneKnown'
    BY <2>1, <2>2, <2>3, <2>4
       DEF EmailInv, JobsDrawn, Codes, Entered, SpentCodesAreGone, RaceNoted, AloneKnown, Registers
  <2>7. OnlyHere'
    BY <2>1, <2>2, <2>3, <2>4 DEF EmailInv, Codes, OnlyHere
  <2>8. OneAddress'
    <3>1. OneAddress /\ c # NoCode
      BY <2>2, <2>3, EntryFields DEF EmailInv, Codes
    <3>2. QED
      BY <2>1, <2>2, <2>3, <2>4, <3>1 DEF OneAddress
  <2>9. QED
    BY <2>5, <2>6, <2>7, <2>8 DEF EmailInv, Codes
<1>3. QED
  BY <1>1, <1>2

(* Nothing of all this depends on the time, or on what maintain holds.     *)
LEMMA RestKeeps ==
  ASSUME EmailInv, clock' \in Nat, held' \subseteq Shard,
         UNCHANGED <<registry, at, job, drawn, mailed, latest, spent, raced, alone>>
  PROVE  EmailInv'
<1>1. EmailTypeOK'
  BY DEF EmailInv, EmailTypeOK
<1>2. JobsDrawn' /\ Codes'
  BY DEF EmailInv, JobsDrawn, Codes, Entered, OnlyHere, OneAddress, SpentCodesAreGone
<1>3. RaceNoted' /\ AloneKnown'
  BY DEF EmailInv, RaceNoted, AloneKnown, Registers
<1>4. QED
  BY <1>1, <1>2, <1>3 DEF EmailInv

(* The lock of the status is taken. *)
LEMMA WaitKeeps ==
  ASSUME EmailInv, NEW p \in Proc, at[p] = "lock", Goto(p, "status"),
         UNCHANGED <<clock, registry, job, held, drawn, mailed, latest, spent, raced, alone>>
  PROVE  EmailInv'
<1>1. /\ at' = [at EXCEPT ![p] = "status"] /\ at'[p] = "status"
      /\ \A q \in Proc \ {p} : at'[q] = at[q]
  BY DEF Goto, EmailInv, EmailTypeOK
<1>2. EmailTypeOK'
  BY <1>1 DEF EmailInv, EmailTypeOK, Registering, Verifying
<1>3. JobsDrawn' /\ Codes'
  BY <1>1 DEF EmailInv, JobsDrawn, Codes, Entered, OnlyHere, OneAddress, SpentCodesAreGone
<1>4. RaceNoted' /\ AloneKnown'
  BY <1>1 DEF EmailInv, RaceNoted, AloneKnown, Registers
<1>5. QED
  BY <1>2, <1>3, <1>4 DEF EmailInv
=============================================================================
