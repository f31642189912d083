----------------------- MODULE AllocationServiceProofs -----------------------
(* Theorems about AllocationService, for every value of its constants.     *)
EXTENDS AllocationService, TLAPS

All == Lives \cup {"absent", "released", "discarded"}

ServiceOK ==
    /\ life \in [GameServers -> All]
    /\ served \in [GameServers -> SUBSET Sessions]
    /\ answer \in [Clients -> [session : Sessions, gs : GameServers]
                                 \cup {NoAnswer}]

LEMMA ServiceOKStep ==
    ASSUME ServiceOK, [Next]_vars
    PROVE  ServiceOK'
<1> USE DEF ServiceOK, All, Lives, Become
<1>1. ASSUME NEW g \in GameServers, NEW s \in Sessions, Book(g, s)
      PROVE  ServiceOK'
  BY <1>1 DEF Book
<1>2. ASSUME NEW c \in Clients, NEW g \in GameServers, NEW s \in Sessions,
             AnswerAgain(c, g, s)
      PROVE  ServiceOK'
  BY <1>2 DEF AnswerAgain
<1>3. ASSUME NEW C \in SUBSET Clients, Forget(C)
      PROVE  ServiceOK'
  BY <1>3 DEF Forget
<1>4. ASSUME NEW g \in GameServers,
             Create(g) \/ BecomeFree(g) \/ End(g) \/ ScaleDown(g)
                \/ Discard(g) \/ Overwrite(g)
      PROVE  ServiceOK'
  BY <1>4 DEF Create, BecomeFree, End, ScaleDown, Discard, Overwrite
<1>5. CASE UNCHANGED vars
  BY <1>5 DEF vars
<1> QED
  BY <1>1, <1>2, <1>3, <1>4, <1>5 DEF Next

LEMMA ServesOneStep ==
    ASSUME ServiceOK, ServesOne, [Next]_vars
    PROVE  ServesOne'
<1> SUFFICES ASSUME ~overwritten', NEW g \in GameServers
             PROVE  /\ life'[g] \in {"absent", "starting", "free"} =>
                          served'[g] = {}
                    /\ \A s, t \in served'[g] : s = t
  BY DEF ServesOne
<1> USE DEF ServesOne, ServiceOK, Become, Lives
<1>1. ASSUME NEW k \in GameServers, NEW s \in Sessions, Book(k, s)
      PROVE  /\ life'[g] \in {"absent", "starting", "free"} => served'[g] = {}
             /\ \A r, t \in served'[g] : r = t
  BY <1>1 DEF Book
<1>2. ASSUME NEW k \in GameServers,
             Create(k) \/ BecomeFree(k) \/ End(k) \/ ScaleDown(k)
                \/ Discard(k) \/ Overwrite(k)
      PROVE  /\ life'[g] \in {"absent", "starting", "free"} => served'[g] = {}
             /\ \A r, t \in served'[g] : r = t
  BY <1>2 DEF Create, BecomeFree, End, ScaleDown, Discard, Overwrite
<1>3. CASE UNCHANGED <<life, served, overwritten>>
  BY <1>3
<1> QED
  BY <1>1, <1>2, <1>3 DEF Next, vars, AnswerAgain, Forget

LEMMA AnswersServedStep ==
    ASSUME ServiceOK, AnswersServed, [Next]_vars
    PROVE  AnswersServed'
<1> SUFFICES ASSUME NEW c \in Clients, answer'[c] # NoAnswer
             PROVE  answer'[c].session \in served'[answer'[c].gs]
  BY DEF AnswersServed
<1>1. ASSUME NEW g \in GameServers
      PROVE  served[g] \subseteq served'[g]
  BY DEF ServiceOK, Next, vars, Book, AnswerAgain, Forget, Create, BecomeFree,
         End, ScaleDown, Discard, Overwrite
<1>2. CASE answer'[c] = answer[c]
  BY <1>1, <1>2 DEF AnswersServed, ServiceOK
<1>3. ASSUME NEW g \in GameServers, NEW s \in Sessions, Book(g, s),
             answer'[c] # answer[c]
      PROVE  answer'[c].session \in served'[answer'[c].gs]
  <2>1. answer'[c] = [session |-> s, gs |-> g]
    BY <1>3 DEF Book, ServiceOK
  <2>2. s \in served'[g]
    BY <1>3 DEF Book, ServiceOK
  <2> QED
    BY <2>1, <2>2
<1>4. ASSUME NEW d \in Clients, NEW g \in GameServers, NEW s \in Sessions,
             AnswerAgain(d, g, s), answer'[c] # answer[c]
      PROVE  answer'[c].session \in served'[answer'[c].gs]
  <2>1. answer'[c] = [session |-> s, gs |-> g]
    BY <1>4 DEF AnswerAgain, ServiceOK
  <2> QED
    BY <1>4, <2>1 DEF AnswerAgain
<1>5. ASSUME NEW C \in SUBSET Clients, Forget(C)
      PROVE  answer'[c] = answer[c]
  BY <1>5 DEF Forget
<1> QED
  BY <1>2, <1>3, <1>4, <1>5
     DEF Next, vars, Create, BecomeFree, End, ScaleDown, Discard, Overwrite

LEMMA ServiceInvariants ==
    Spec => [](ServiceOK /\ ServesOne /\ AnswersServed)
<1>1. Init => ServiceOK /\ ServesOne /\ AnswersServed
  BY DEF Init, ServiceOK, All, ServesOne, AnswersServed
<1>2. /\ ServiceOK /\ ServesOne /\ AnswersServed
      /\ [Next]_vars
      => (ServiceOK /\ ServesOne /\ AnswersServed)'
  BY ServiceOKStep, ServesOneStep, AnswersServedStep
<1> QED
  BY <1>1, <1>2, PTL DEF Spec

(* A service whose servers no agent overwrites gives each server to one    *)
(* session: what handleAllocationRequest promises to its callers.          *)
THEOREM ServesOneCorrect == Spec => []ServesOne
  BY ServiceInvariants, PTL

(* A server is answered only to a session that it was booked for           *)
(* (handleAllocationRequest).                                              *)
THEOREM AnswersServedCorrect == Spec => []AnswersServed
  BY ServiceInvariants, PTL

=============================================================================
