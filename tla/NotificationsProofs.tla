------------------------- MODULE NotificationsProofs ------------------------
(***************************************************************************)
(* Theorems about Notifications, for any number of requests, places in the *)
(* mailer's queue and changes of the deal.                                 *)
(***************************************************************************)
EXTENDS Notifications, TLAPS

-----------------------------------------------------------------------------
(* The inductive invariant, in parts.                                      *)

\* What a running call may rely on about its own local state.
LocalOK(r) ==
  /\ pc[r] = "notify" => ann[r] \in 1..Len(changes)
  /\ pc[r] = "write" => /\ to[r] \in Events
                        /\ to[r] = "locked" => mem[r] = "awaiting_payment"
  /\ pc[r] = "setStatus" => to[r] \in {"work_submitted", "reviewing"}

Locals == \A r \in Requests : LocalOK(r)

\* An announcement has one carrier, a call or a place in the queue.
OneCarrier ==
  /\ \A r, q \in Requests : pc[r] = "notify" /\ pc[q] = "notify" /\ ann[r] = ann[q] => r = q
  /\ \A s, t \in Slots : ~Free(s) /\ slot[s] = slot[t] => s = t
  /\ \A r \in Requests, s \in Slots : pc[r] = "notify" => slot[s] # ann[r]

\* Its carrier knows who has not been mailed yet.
Unsent(w, a) == mails[<<w, a>>] = 0

CarrierOK ==
  /\ \A r \in Requests : pc[r] = "notify" =>
       Unsent("freelancer", ann[r]) /\ Unsent("client", ann[r])
  /\ \A s \in Slots : ~Free(s) =>
       /\ slot[s] \in 1..Len(changes)
       /\ next[s] = "freelancer" => Unsent("freelancer", slot[s]) /\ Unsent("client", slot[s])
       /\ next[s] = "client" => Unsent("client", slot[s])

Carriers == OneCarrier /\ CarrierOK /\ OneMailPerChange

\* The deal leaves awaiting_payment once, and is locked only from there.
LockedOnce ==
  /\ PaymentAnnouncedOnce
  /\ status = "awaiting_payment" => \A m \in DOMAIN changes : changes[m] # "locked"

IInv == TypeOK /\ Locals /\ Carriers /\ LockedOnce

-----------------------------------------------------------------------------
\* Before the payment.
LEMMA InitInvariant == Init => IInv
<1> SUFFICES ASSUME Init PROVE IInv
  OBVIOUS
<1>1. TypeOK
  BY ChangesAssumption DEF Init, TypeOK, Status, Announcements, Nothing, NoStatus, Nobody
<1>2. Locals /\ Carriers /\ LockedOnce
  BY ChangesAssumption DEF Init, Locals, LocalOK, Carriers, OneCarrier, CarrierOK, OneMailPerChange,
         Announcements, Free, LockedOnce, PaymentAnnouncedOnce
<1> QED BY <1>1, <1>2 DEF IInv

\* Entering a step writes the caller's own local state and nobody else's.
LEMMA EnterEffect ==
  ASSUME TypeOK, NEW r \in Requests, NEW step \in {"idle", "write", "setStatus", "notify"},
         NEW s \in Status \cup {NoStatus}, NEW n \in Status \cup {NoStatus},
         NEW a \in Announcements \cup {Nothing}, Enter(r, step, s, n, a)
  PROVE  /\ pc' \in [Requests -> {"idle", "write", "setStatus", "notify"}]
         /\ mem' \in [Requests -> Status \cup {NoStatus}]
         /\ to' \in [Requests -> Status \cup {NoStatus}]
         /\ ann' \in [Requests -> Announcements \cup {Nothing}]
         /\ pc'[r] = step /\ mem'[r] = s /\ to'[r] = n /\ ann'[r] = a
         /\ \A q \in Requests : q # r =>
              pc'[q] = pc[q] /\ mem'[q] = mem[q] /\ to'[q] = to[q] /\ ann'[q] = ann[q]
  BY DEF TypeOK, Enter

\* A step that announces nothing: a read, an unannounced write, a call's end.
LEMMA QuietStep ==
  ASSUME IInv, NEW r \in Requests, NEW step \in {"idle", "write", "setStatus"},
         NEW s \in Status \cup {NoStatus}, NEW n \in Status \cup {NoStatus},
         Enter(r, step, s, n, Nothing), UNCHANGED <<changes, mailer>>, status' \in Status,
         status' = status \/ status' # "awaiting_payment",
         step = "write" => n \in Events /\ (n = "locked" => s = "awaiting_payment"),
         step = "setStatus" => n \in {"work_submitted", "reviewing"}
  PROVE  IInv'
<1>1. /\ pc'[r] = step /\ mem'[r] = s /\ to'[r] = n
      /\ \A q \in Requests : q # r =>
           pc'[q] = pc[q] /\ mem'[q] = mem[q] /\ to'[q] = to[q] /\ ann'[q] = ann[q]
  BY DEF IInv, TypeOK, Enter
<1>2. TypeOK'
  <2>1. /\ pc' \in [Requests -> {"idle", "write", "setStatus", "notify"}]
        /\ mem' \in [Requests -> Status \cup {NoStatus}]
        /\ to' \in [Requests -> Status \cup {NoStatus}]
        /\ ann' \in [Requests -> Announcements \cup {Nothing}]
    BY EnterEffect DEF IInv
  <2> QED BY <2>1 DEF IInv, TypeOK, mailer
<1>3. Locals'
  <2>1. LocalOK(r)'
    BY <1>1 DEF LocalOK
  <2>2. ASSUME NEW q \in Requests, q # r PROVE LocalOK(q)'
    BY <1>1, <2>2 DEF IInv, Locals, LocalOK
  <2> QED BY <2>1, <2>2 DEF Locals
<1>4. Carriers'
  <2>1. OneCarrier'
    BY <1>1 DEF IInv, Carriers, OneCarrier, Free, mailer
  <2>2. CarrierOK'
    BY <1>1 DEF IInv, Carriers, CarrierOK, Unsent, Free, mailer
  <2>3. OneMailPerChange'
    BY DEF IInv, Carriers, OneMailPerChange, mailer
  <2> QED BY <2>1, <2>2, <2>3 DEF Carriers
<1>5. LockedOnce'
  BY DEF IInv, LockedOnce, PaymentAnnouncedOnce
<1> QED BY <1>2, <1>3, <1>4, <1>5 DEF IInv

\* The end of a call that wrote nothing.
LEMMA DoneStep ==
  ASSUME IInv, NEW r \in Requests, Done(r), UNCHANGED <<status, changes, mailer>>
  PROVE  IInv'
  BY QuietStep DEF Done, IInv, TypeOK

\* A write that changed the row creates a new announcement, carried by its call.
LEMMA ChangedStep ==
  ASSUME IInv, NEW r \in Requests, NEW e \in Events, Changed(r, e), UNCHANGED mailer,
         pc[r] # "notify", e = "locked" => status = "awaiting_payment"
  PROVE  IInv'
<1> DEFINE a == Len(changes) + 1
<1>1. /\ changes \in Seq(Events) /\ Len(changes) \in Nat /\ Len(changes) < MaxChanges
      /\ a \in Announcements /\ status' = e /\ changes' = Append(changes, e)
      /\ Enter(r, "notify", NoStatus, NoStatus, a)
  BY ChangesAssumption DEF IInv, TypeOK, Changed, Announcements
<1>2. /\ changes' \in Seq(Events) /\ Len(changes') = a /\ changes'[a] = e
      /\ \A m \in 1..Len(changes) : changes'[m] = changes[m]
  BY <1>1
<1>3. /\ pc'[r] = "notify" /\ ann'[r] = a
      /\ \A q \in Requests : q # r =>
           pc'[q] = pc[q] /\ mem'[q] = mem[q] /\ to'[q] = to[q] /\ ann'[q] = ann[q]
  BY <1>1, EnterEffect DEF IInv
<1>4. TypeOK'
  <2>1. /\ pc' \in [Requests -> {"idle", "write", "setStatus", "notify"}]
        /\ mem' \in [Requests -> Status \cup {NoStatus}]
        /\ to' \in [Requests -> Status \cup {NoStatus}]
        /\ ann' \in [Requests -> Announcements \cup {Nothing}]
    BY <1>1, EnterEffect DEF IInv
  <2>2. Len(changes') <= MaxChanges
    BY <1>1, <1>2, ChangesAssumption
  <2> QED BY <1>1, <1>2, <2>1, <2>2 DEF IInv, TypeOK, mailer, Events, Status
<1>5. Locals'
  <2> HIDE DEF a
  <2>1. 1..Len(changes) \subseteq 1..Len(changes') /\ a \in 1..Len(changes')
    BY <1>1, <1>2 DEF a
  <2> QED BY <1>3, <2>1 DEF IInv, Locals, LocalOK
<1>6. Carriers'
  <2>1. \A q \in Requests : pc[q] = "notify" => ann[q] # a
    BY <1>1 DEF IInv, Locals, LocalOK
  <2>2. \A s \in Slots : slot[s] # a
    BY <1>1 DEF IInv, Carriers, CarrierOK, Free, Nothing
  <2>3. Unsent("freelancer", a) /\ Unsent("client", a)
    BY <1>1 DEF IInv, TypeOK, Carriers, OneMailPerChange, Unsent, Recipients, Announcements
  <2>4. OneCarrier'
    <3>1. \A p, q \in Requests : pc'[p] = "notify" /\ pc'[q] = "notify" /\ ann'[p] = ann'[q] => p = q
      BY <1>3, <2>1 DEF IInv, Carriers, OneCarrier
    <3>2. \A q \in Requests, s \in Slots : pc'[q] = "notify" => slot[s] # ann'[q]
      BY <1>3, <2>2 DEF IInv, Carriers, OneCarrier
    <3> QED BY <3>1, <3>2 DEF IInv, Carriers, OneCarrier, Free, mailer
  <2>5. CarrierOK'
    <3> HIDE DEF a
    <3>1. 1..Len(changes) \subseteq 1..Len(changes')
      BY <1>1, <1>2 DEF a
    <3> QED BY <1>3, <2>3, <3>1 DEF IInv, Carriers, CarrierOK, Unsent, Free, mailer
  <2>6. OneMailPerChange'
    <3> SUFFICES ASSUME NEW w \in Recipients, NEW b \in Announcements
                 PROVE  mails[<<w, b>>] <= (IF b <= Len(changes') THEN 1 ELSE 0)
      BY DEF OneMailPerChange, mailer
    <3>1. mails[<<w, b>>] <= (IF b <= Len(changes) THEN 1 ELSE 0) /\ mails[<<w, b>>] \in Nat
      BY DEF IInv, TypeOK, Carriers, OneMailPerChange
    <3> QED BY <1>1, <1>2, <3>1 DEF Announcements
  <2> QED BY <2>4, <2>5, <2>6 DEF Carriers
<1>7. LockedOnce'
  BY <1>1, <1>2 DEF IInv, LockedOnce, PaymentAnnouncedOnce, Events
<1> QED BY <1>4, <1>5, <1>6, <1>7 DEF IInv

\* A free place takes the announcement over from its call.
LEMMA TakeOver ==
  ASSUME IInv, NEW r \in Requests, NEW s \in Slots, Notify(r, s)
  PROVE  IInv'
<1>1. /\ pc[r] = "notify" /\ slot[s] = Nothing /\ UNCHANGED <<status, changes, mails>>
      /\ slot' = [slot EXCEPT ![s] = ann[r]] /\ next' = [next EXCEPT ![s] = "freelancer"]
  BY DEF Notify, Free
<1>2. /\ pc' \in [Requests -> {"idle", "write", "setStatus", "notify"}]
      /\ mem' \in [Requests -> Status \cup {NoStatus}]
      /\ to' \in [Requests -> Status \cup {NoStatus}]
      /\ ann' \in [Requests -> Announcements \cup {Nothing}]
      /\ pc'[r] = "idle"
      /\ \A q \in Requests : q # r =>
           pc'[q] = pc[q] /\ mem'[q] = mem[q] /\ to'[q] = to[q] /\ ann'[q] = ann[q]
  BY DEF Notify, Done, Enter, IInv, TypeOK
<1>3. ann[r] \in 1..Len(changes) /\ ann[r] # Nothing /\ ann[r] \in Announcements
  BY <1>1 DEF IInv, TypeOK, Locals, LocalOK, Nothing, Announcements
<1>4. TypeOK'
  BY <1>1, <1>2, <1>3 DEF IInv, TypeOK, Recipients
<1>5. Locals'
  BY <1>1, <1>2 DEF IInv, Locals, LocalOK
<1>6. /\ slot'[s] = ann[r] /\ next'[s] = "freelancer"
      /\ \A t \in Slots : t # s => slot'[t] = slot[t] /\ next'[t] = next[t]
  BY <1>1 DEF IInv, TypeOK
<1>7. OneCarrier'
  <2>1. \A t \in Slots : slot[t] # ann[r]
    BY <1>1 DEF IInv, Carriers, OneCarrier
  <2>2. \A q \in Requests : q # r /\ pc[q] = "notify" => ann[q] # ann[r]
    BY <1>1 DEF IInv, Carriers, OneCarrier
  <2>3. \A t, u \in Slots : slot'[t] # Nothing /\ slot'[t] = slot'[u] => t = u
    BY <1>6, <2>1 DEF IInv, Carriers, OneCarrier, Free
  <2>4. \A q \in Requests, t \in Slots : pc'[q] = "notify" => slot'[t] # ann'[q]
    BY <1>2, <1>6, <2>2 DEF IInv, Carriers, OneCarrier
  <2> QED BY <1>2, <2>3, <2>4 DEF IInv, Carriers, OneCarrier, Free
<1>8. CarrierOK'
  <2>1. Unsent("freelancer", ann[r]) /\ Unsent("client", ann[r])
    BY <1>1 DEF IInv, Carriers, CarrierOK
  <2>2. \A q \in Requests : pc'[q] = "notify" =>
          Unsent("freelancer", ann'[q]) /\ Unsent("client", ann'[q])
    BY <1>2 DEF IInv, Carriers, CarrierOK
  <2>3. ASSUME NEW t \in Slots, slot'[t] # Nothing
        PROVE  /\ slot'[t] \in 1..Len(changes)
               /\ next'[t] = "freelancer" =>
                    Unsent("freelancer", slot'[t]) /\ Unsent("client", slot'[t])
               /\ next'[t] = "client" => Unsent("client", slot'[t])
    <3>1. CASE t = s
      BY <1>3, <1>6, <2>1, <3>1
    <3>2. CASE t # s
      BY <1>6, <2>3, <3>2 DEF IInv, Carriers, CarrierOK, Free
    <3> QED BY <3>1, <3>2
  <2> QED BY <1>1, <2>2, <2>3 DEF CarrierOK, Unsent, Free
<1>9. OneMailPerChange' /\ LockedOnce'
  BY <1>1 DEF IInv, Carriers, OneMailPerChange, LockedOnce, PaymentAnnouncedOnce
<1> QED BY <1>4, <1>5, <1>7, <1>8, <1>9 DEF IInv, Carriers

\* A mail, sent or not, leaves its place with less to send.
LEMMA MailStep ==
  ASSUME IInv, NEW s \in Slots, MailerStep(s)
  PROVE  IInv'
<1> DEFINE w == next[s]
           a == slot[s]
<1>1. /\ slot[s] # Nothing /\ w \in Recipients /\ a \in 1..Len(changes) /\ a \in Announcements
      /\ UNCHANGED <<status, changes, reqs>>
      /\ mails' = mails \/ mails' = [mails EXCEPT ![<<w, a>>] = @ + 1]
      /\ \/ w = "freelancer" /\ slot' = slot /\ next' = [next EXCEPT ![s] = "client"]
         \/ /\ w = "client" /\ slot' = [slot EXCEPT ![s] = Nothing]
            /\ next' = [next EXCEPT ![s] = Nobody]
  BY DEF MailerStep, MailFreelancer, MailClient, Mail, Free, Recipients, IInv, TypeOK, Carriers,
         CarrierOK
<1>2. Unsent(w, a) /\ (w = "freelancer" => Unsent("client", a))
  BY <1>1 DEF IInv, Carriers, CarrierOK, Free
<1> HIDE DEF w, a
<1>3. /\ mails' \in [Recipients \X Announcements -> Nat]
      /\ mails'[<<w, a>>] \in {0, 1}
      /\ \A v \in Recipients, b \in Announcements :
           <<v, b>> # <<w, a>> => mails'[<<v, b>>] = mails[<<v, b>>]
  <2>1. mails \in [Recipients \X Announcements -> Nat] /\ <<w, a>> \in Recipients \X Announcements
    BY <1>1 DEF IInv, TypeOK
  <2>2. mails[<<w, a>>] = 0
    BY <1>2 DEF Unsent
  <2>3. CASE mails' = mails
    BY <2>1, <2>2, <2>3
  <2>4. CASE mails' = [mails EXCEPT ![<<w, a>>] = @ + 1]
    <3>1. mails' = [mails EXCEPT ![<<w, a>>] = 1]
      BY <2>1, <2>2, <2>4
    <3>2. \A k \in Recipients \X Announcements : k # <<w, a>> => mails'[k] = mails[k]
      BY <2>1, <3>1
    <3> QED BY <2>1, <3>1, <3>2
  <2> QED BY <1>1, <2>3, <2>4
<1>4. /\ slot' \in [Slots -> Announcements \cup {Nothing}]
      /\ next' \in [Slots -> Recipients \cup {Nobody}]
      /\ \A t \in Slots : t # s => slot'[t] = slot[t] /\ next'[t] = next[t]
      /\ \/ w = "freelancer" /\ slot'[s] = a /\ next'[s] = "client"
         \/ slot'[s] = Nothing
  <2>1. slot \in [Slots -> Announcements \cup {Nothing}] /\ next \in [Slots -> Recipients \cup {Nobody}]
    BY DEF IInv, TypeOK
  <2>2. CASE w = "freelancer" /\ slot' = slot /\ next' = [next EXCEPT ![s] = "client"]
    BY <2>1, <2>2 DEF Recipients, a
  <2>3. CASE slot' = [slot EXCEPT ![s] = Nothing] /\ next' = [next EXCEPT ![s] = Nobody]
    BY <2>1, <2>3
  <2> QED BY <1>1, <2>2, <2>3
<1>5. TypeOK'
  BY <1>1, <1>3, <1>4 DEF IInv, TypeOK, reqs
<1>6. Locals' /\ LockedOnce'
  BY <1>1 DEF IInv, Locals, LocalOK, LockedOnce, PaymentAnnouncedOnce, reqs
<1>7. OneCarrier'
  <2>1. \A t \in Slots : slot'[t] = slot[t] \/ slot'[t] = Nothing
    BY <1>4 DEF a
  <2>2. \A r \in Requests : pc[r] = "notify" => ann[r] # Nothing
    BY DEF IInv, TypeOK, Locals, LocalOK, Nothing
  <2>3. \A t, u \in Slots : slot'[t] # Nothing /\ slot'[t] = slot'[u] => t = u
    BY <2>1 DEF IInv, Carriers, OneCarrier, Free
  <2>4. \A r \in Requests, t \in Slots : pc[r] = "notify" => slot'[t] # ann[r]
    BY <2>1, <2>2 DEF IInv, Carriers, OneCarrier
  <2> QED BY <1>1, <2>3, <2>4 DEF IInv, Carriers, OneCarrier, Free, reqs
<1>8. CarrierOK'
  <2>1. \A r \in Requests : pc[r] = "notify" => ann[r] # a /\ ann[r] \in Announcements
    <3>1. \A r \in Requests : pc[r] = "notify" => ann[r] # a
      BY DEF IInv, Carriers, OneCarrier, a
    <3>2. \A r \in Requests : pc[r] = "notify" => ann[r] # Nothing
      BY DEF IInv, TypeOK, Locals, LocalOK, Nothing
    <3> QED BY <3>1, <3>2 DEF IInv, TypeOK
  <2>2. \A r \in Requests : pc[r] = "notify" =>
          mails'[<<"freelancer", ann[r]>>] = 0 /\ mails'[<<"client", ann[r]>>] = 0
    BY <1>3, <2>1 DEF IInv, Carriers, CarrierOK, Unsent, Recipients
  <2>3. \A t \in Slots : t # s /\ slot[t] # Nothing => slot[t] # a /\ slot[t] \in Announcements
    BY <1>1 DEF IInv, TypeOK, Carriers, OneCarrier, Free, a
  <2>4. ASSUME NEW t \in Slots, t # s, slot[t] # Nothing
        PROVE  /\ slot'[t] \in 1..Len(changes)
               /\ next'[t] = "freelancer" =>
                    mails'[<<"freelancer", slot'[t]>>] = 0 /\ mails'[<<"client", slot'[t]>>] = 0
               /\ next'[t] = "client" => mails'[<<"client", slot'[t]>>] = 0
    BY <1>3, <1>4, <2>3, <2>4 DEF IInv, Carriers, CarrierOK, Unsent, Free, Recipients
  <2>5. slot'[s] # Nothing =>
          /\ slot'[s] \in 1..Len(changes) /\ next'[s] = "client"
          /\ mails'[<<"client", slot'[s]>>] = 0
    BY <1>1, <1>2, <1>3, <1>4 DEF Unsent, Recipients
  <2> QED BY <1>1, <1>4, <2>2, <2>4, <2>5 DEF CarrierOK, Unsent, Free, reqs
<1>9. OneMailPerChange'
  <2> SUFFICES ASSUME NEW v \in Recipients, NEW b \in Announcements
               PROVE  mails'[<<v, b>>] <= (IF b <= Len(changes) THEN 1 ELSE 0)
    BY <1>1 DEF OneMailPerChange
  <2>1. CASE <<v, b>> = <<w, a>>
    <3>1. b <= Len(changes) /\ mails'[<<v, b>>] \in {0, 1}
      BY <1>1, <1>3, <2>1 DEF IInv, TypeOK
    <3> QED BY <3>1
  <2>2. CASE <<v, b>> # <<w, a>>
    BY <1>3, <2>2 DEF IInv, Carriers, OneMailPerChange
  <2> QED BY <2>1, <2>2
<1> QED BY <1>5, <1>6, <1>7, <1>8, <1>9 DEF IInv, Carriers

\* A crash forgets announcements and mails nothing twice.
LEMMA CrashStep == IInv /\ Crash => IInv'
<1> SUFFICES ASSUME IInv, Crash PROVE IInv'
  OBVIOUS
<1>1. TypeOK'
  BY DEF Crash, IInv, TypeOK, Nothing, NoStatus, Nobody
<1>2. Locals' /\ Carriers' /\ LockedOnce'
  BY DEF Crash, IInv, Locals, LocalOK, Carriers, OneCarrier, CarrierOK, OneMailPerChange, Free,
         LockedOnce, PaymentAnnouncedOnce
<1> QED BY <1>1, <1>2 DEF IInv

\* The deal's services and the mailer keep the invariant.
LEMMA NextInvariant == IInv /\ [Next]_vars => IInv'
<1> SUFFICES ASSUME IInv, [Next]_vars PROVE IInv'
  OBVIOUS
<1>t. status \in Status /\ status # NoStatus
  BY DEF IInv, TypeOK, Status, NoStatus
<1>1. ASSUME NEW r \in Requests, DetectPayment(r) \/ DisputeDeal(r) \/ SweepExpired(r)
      PROVE  IInv'
  <2>1. \E s, n \in Status :
          /\ Enter(r, "write", s, n, Nothing) /\ UNCHANGED <<status, changes, mailer>>
          /\ n \in Events /\ (n = "locked" => s = "awaiting_payment")
    BY <1>1, <1>t DEF DetectPayment, DisputeDeal, SweepExpired, Events, Status
  <2> QED BY <1>t, <2>1, QuietStep
<1>2. ASSUME NEW r \in Requests, WriteIfCurrent(r) PROVE IInv'
  <2>1. CASE status = mem[r] /\ Changed(r, to[r])
    <3>1. to[r] \in Events /\ (to[r] = "locked" => status = "awaiting_payment") /\ pc[r] # "notify"
      BY <1>2, <2>1 DEF WriteIfCurrent, IInv, Locals, LocalOK
    <3> QED BY <1>2, <2>1, <3>1, ChangedStep DEF WriteIfCurrent
  <2>2. CASE Done(r) /\ UNCHANGED <<status, changes>>
    BY <1>2, <2>2, DoneStep DEF WriteIfCurrent
  <2> QED BY <1>2, <2>1, <2>2 DEF WriteIfCurrent
<1>3. ASSUME NEW r \in Requests, Release(r) \/ RefundDispute(r) PROVE IInv'
  <2>1. \E e \in {"released", "refunded"} : Changed(r, e) /\ UNCHANGED mailer /\ pc[r] # "notify"
    BY <1>3 DEF Release, RefundDispute
  <2> QED BY <2>1, ChangedStep DEF Events
<1>4. ASSUME NEW r \in Requests, NEW new \in Status, UpdateStatus(r, new) PROVE IInv'
  <2>1. /\ Enter(r, "setStatus", NoStatus, new, Nothing) /\ UNCHANGED <<status, changes, mailer>>
        /\ new \in {"work_submitted", "reviewing"}
    BY <1>4, <1>t DEF UpdateStatus, BackendOnly, CanTransition, ValidTransitions, Status, Closed
  <2> QED BY <1>t, <2>1, QuietStep
<1>5. ASSUME NEW r \in Requests, WriteStatus(r) PROVE IInv'
  <2>1. /\ Enter(r, "idle", NoStatus, NoStatus, Nothing) /\ UNCHANGED <<changes, mailer>>
        /\ status' \in {"work_submitted", "reviewing"}
    BY <1>5 DEF WriteStatus, Done, IInv, Locals, LocalOK
  <2> QED BY <2>1, QuietStep DEF Status
<1>6. ASSUME NEW r \in Requests, NotifyStep(r) \/ Abandon(r) PROVE IInv'
  BY <1>6, TakeOver, DoneStep DEF NotifyStep, NotifyDropped, Abandon
<1>7. CASE UNCHANGED vars
  BY <1>7 DEF vars, reqs, mailer, IInv, TypeOK, Locals, LocalOK, Carriers, OneCarrier, CarrierOK,
              Unsent, OneMailPerChange, Free, LockedOnce, PaymentAnnouncedOnce
<1> QED
  BY <1>1, <1>2, <1>3, <1>4, <1>5, <1>6, <1>7, MailStep, CrashStep DEF Next, ServiceStep

-----------------------------------------------------------------------------
\* Type correctness of the deal, the calls and the mailer.
THEOREM TypeCorrect == Spec => []TypeOK
BY InitInvariant, NextInvariant, PTL DEF Spec, IInv

\* Nobody is mailed twice about one change, for any number of callers that saw
\* it and any number of mailer goroutines (notifyBoth, UpdateStatusIfCurrent).
THEOREM MailSafety == Spec => []OneMailPerChange
BY InitInvariant, NextInvariant, PTL DEF Spec, IInv, Carriers

\* A payment is announced at most once, for any number of webhooks, polls and
\* page views that report it.
THEOREM PaymentSafety == Spec => []PaymentAnnouncedOnce
BY InitInvariant, NextInvariant, PTL DEF Spec, IInv, LockedOnce
=============================================================================
