------------------------- MODULE SecureChannelProofs -------------------------
(***************************************************************************)
(* Keys and sessions, for any number of keys, retries and mishaps:         *)
(* a CP commits a key only once the PD has stored it; a PD out of install  *)
(* mode opens no session on the default key; two ends of one session are   *)
(* never more than one exchange apart; and lost frames alone cost the CP   *)
(* no session before its retries are used up.                              *)
(*                                                                         *)
(* The first rests on the exchange being one frame at a time and on the    *)
(* PD's cache: a KEYSET whose acknowledgement could not be sent leaves an  *)
(* ACK in the cache, but with a sequence number that no repeat asks for    *)
(* (CacheSound).  The second rests on the CP proving a key only after the  *)
(* PD has answered its challenge (ChallengedFirst).  The last two rest on  *)
(* what reaches the CP being what the PD built last, in the session it has *)
(* now (Current): the sequence number that admits the reply then says how  *)
(* far the PD's chain is (Together), and without damage to the session     *)
(* other than losses the reply is the ACK with the next MAC (Unhurt).      *)
(*                                                                         *)
(* That every variable keeps its type comes last: it needs that the random *)
(* numbers do not run out, which a count of those in use shows             *)
(* (OneSession, NewNumber).                                                *)
(***************************************************************************)
EXTENDS SecureChannel, FiniteSetTheorems, TLAPS

Numbers == cpSeq \in -1..3 /\ txSeq \in 0..3 /\ pdSeq \in -1..3

KeysKnown ==
    /\ cpKey \in Keys
    /\ pdKey \in Keys \cup {NoKey}
    /\ stored \in Keys \cup {NoKey}

\* The records the PD changes field by field.
Shapes ==
    /\ pds = [id |-> pds.id, c |-> pds.c, r |-> pds.r]
    /\ cache = [code |-> cache.code, reply |-> cache.reply]

\* What the CP sends belongs to its state.
Asking ==
    /\ phy \in {"IDLE", "WAIT", "REPLY_WAIT"}
    /\ state = "OFFLINE" => phy = "IDLE"
    /\ phy # "IDLE" =>
          /\ cmd.code = "KEYSET" => state \in {"SET_SCBK", "ONLINE"}
                                    /\ cmd.key \in Keys
          /\ cmd.code = "SCRYPT" => state = "SC_SCRYPT"
    /\ phy = "REPLY_WAIT" => txSeq = NextSeq(cpSeq)

\* One frame is under way at a time, and a command is the CP's.
OneFrame ==
    /\ phy # "REPLY_WAIT" => toPd = <<>> /\ toCp = <<>>
    /\ toPd # <<>> =>
          /\ toCp = <<>>
          /\ Head(toPd).code = cmd.code
          /\ Head(toPd).seq = txSeq
          /\ cmd.code = "KEYSET" => Head(toPd).arg.key = cmd.key

\* An acknowledgement that fits a KEYSET is the PD's word on that key.
AckSound ==
    /\ phy = "REPLY_WAIT" /\ toCp # <<>> /\ cmd.code = "KEYSET"
    /\ Head(toCp).code = "ACK" /\ Head(toCp).seq = txSeq
    => pdKey = cmd.key /\ stored = cmd.key

\* No cached acknowledgement of a KEYSET is one a repeat would be given.
CacheSound ==
    cache # NoCache /\ cache.code = "KEYSET" /\ cache.reply.code = "ACK"
    => cache.reply.seq # pdSeq

\* Out of install mode a challenge that was answered was answered with another
\* key than the default one.
Undefaulted == ~install => pds.id.key # ScbkD
ChallengedFirst ==
    /\ ~install => ~pdDflt
    /\ state = "SC_SCRYPT" => Undefaulted
    /\ toCp # <<>> /\ Head(toCp).code = "CCRYPT" => Undefaulted
    /\ cache # NoCache /\ cache.reply.code = "CCRYPT" => Undefaulted

IInv ==
    /\ Numbers /\ KeysKnown /\ Shapes
    /\ Asking /\ OneFrame
    /\ AckSound /\ CacheSound
    /\ ChallengedFirst

-----------------------------------------------------------------------------
(* Sequence numbers *)

LEMMA NextSeqFacts ==
    \A s \in -1..3 : NextSeq(s) \in 0..3 /\ NextSeq(s) # s
  BY DEF NextSeq

LEMMA BaseType ==
    ASSUME Numbers, NEW f, f.seq \in 0..3
    PROVE  Base(f) \in -1..3
  BY DEF Numbers, Base, Repeats, Restarts, Rollback

-----------------------------------------------------------------------------
(* The CP *)

LEMMA EnterFacts ==
    ASSUME Numbers, NEW n, NEW seq \in -1..3, NEW spent, NEW s, NEW active,
           Enter(n, seq, spent, s, active)
    PROVE  /\ state' = n /\ phy' = "IDLE" /\ toCp' = <<>>
           /\ cpSeq' \in -1..3 /\ txSeq' \in 0..3
  BY DEF Enter, Numbers

\* What leaving an exchange asks of the invariant, the PD standing still.
LEMMA Leaves ==
    ASSUME IInv, NEW n, NEW seq \in -1..3, NEW spent, NEW s, NEW active,
           Enter(n, seq, spent, s, active), toPd = <<>>,
           cpKey' \in Keys,
           n = "SC_SCRYPT" => Undefaulted,
           UNCHANGED <<pdLink, pdSc, toPd>>
    PROVE  IInv'
<1> USE DEF IInv
<1>1. /\ state' = n /\ phy' = "IDLE" /\ toCp' = <<>> /\ toPd' = <<>>
      /\ cpSeq' \in -1..3 /\ txSeq' \in 0..3
  BY EnterFacts
<1>2. Numbers' /\ KeysKnown' /\ Shapes' /\ CacheSound'
  BY <1>1 DEF Numbers, KeysKnown, Shapes, CacheSound, pdLink, pdSc
<1>3. Asking' /\ OneFrame' /\ AckSound'
  BY <1>1 DEF Asking, OneFrame, AckSound
<1>4. ChallengedFirst'
  BY <1>1 DEF ChallengedFirst, Undefaulted, pdLink, pdSc
<1> QED
  BY <1>2, <1>3, <1>4

\* A failure never leads on in the handshake.
LEMMA FailsLeaves ==
    ASSUME IInv, NEW seq \in -1..3, NEW spent, NEW s, NEW active,
           Fails(seq, spent, s, active), toPd = <<>>,
           UNCHANGED <<pdLink, pdSc, toPd>>
    PROVE  IInv' /\ cpKey' = cpKey
<1>1. Enter(ErrState, seq, spent, s, active) /\ cpKey' = cpKey
  BY DEF Fails
<1>2. ErrState # "SC_SCRYPT"
  BY DEF ErrState
<1>3. cpKey' \in Keys
  BY <1>1 DEF IInv, KeysKnown
<1> QED
  BY <1>1, <1>2, <1>3, Leaves

\* A reply that ends an exchange well: the key it may commit is the PD's.
LEMMA SucceedsLeaves ==
    ASSUME IInv, NEW s, Heard, InSequence(Head(toCp)),
           Head(toCp).code = Expected[state],
           Succeeds(NextSeq(cpSeq), s),
           UNCHANGED <<pdLink, pdSc, toPd>>
    PROVE  IInv' /\ (cpKey' # cpKey => pdKey = cpKey')
<1> USE DEF IInv
<1>1. /\ phy = "REPLY_WAIT" /\ toCp # <<>> /\ toPd = <<>>
      /\ NextSeq(cpSeq) \in -1..3 /\ Head(toCp).seq = txSeq
  BY NextSeqFacts DEF Heard, InSequence, OneFrame, Asking, Numbers
<1>2. cmd.code = "KEYSET" => cmd.key \in Keys /\ pdKey = cmd.key
  <2> HAVE cmd.code = "KEYSET"
  <2>1. state \in {"SET_SCBK", "ONLINE"} /\ cmd.key \in Keys
    BY <1>1 DEF Asking
  <2>2. Head(toCp).code = "ACK"
    BY <2>1 DEF Expected
  <2> QED
    BY <1>1, <2>1, <2>2 DEF AckSound
<1>3. cpKey' \in {cpKey} \cup (IF cmd.code = "KEYSET" THEN {cmd.key} ELSE {})
  BY DEF Succeeds
<1>4. OkState = "SC_SCRYPT" => Undefaulted
  <2> HAVE OkState = "SC_SCRYPT"
  <2>1. state = "SC_CHLNG"
    BY DEF OkState
  <2>2. Head(toCp).code = "CCRYPT"
    BY <2>1 DEF Expected
  <2> QED
    BY <1>1, <2>2 DEF ChallengedFirst
<1>5. \E a \in BOOLEAN : Enter(OkState, NextSeq(cpSeq), 0, s, a)
  BY DEF Succeeds
<1>6. cpKey' \in Keys
  BY <1>2, <1>3 DEF KeysKnown
<1>7. IInv'
  BY <1>1, <1>4, <1>5, <1>6, Leaves
<1> QED
  BY <1>2, <1>3, <1>7

-----------------------------------------------------------------------------
(* The PD *)

\* What an action of the PD asks of the invariant: it takes the command away and
\* may put a reply in its place.
LEMMA PdActs ==
    ASSUME IInv, toPd # <<>>, toPd' = <<>>,
           UNCHANGED <<cpLink, cpSc>>,
           toCp' = <<>> \/ Len(toCp') = 1,
           pdSeq' \in -1..3,
           {pdKey', stored'} \subseteq Keys \cup {NoKey},
           Shapes', AckSound', CacheSound', ChallengedFirst'
    PROVE  IInv'
<1> USE DEF IInv
<1>1. phy = "REPLY_WAIT" /\ UNCHANGED <<state, phy, cmd, cpSeq, txSeq, cpKey>>
  BY DEF OneFrame, cpLink, cpSc
<1>2. Numbers' /\ KeysKnown'
  BY <1>1 DEF Numbers, KeysKnown
<1>3. Asking' /\ OneFrame'
  BY <1>1 DEF Asking, OneFrame
<1> QED
  BY <1>2, <1>3

\* The command on the line.
LEMMA CommandFacts ==
    ASSUME IInv, toPd # <<>>
    PROVE  /\ phy = "REPLY_WAIT" /\ toCp = <<>>
           /\ Head(toPd).code = cmd.code
           /\ Head(toPd).seq = txSeq /\ txSeq \in 0..3
           /\ Base(Head(toPd)) \in -1..3
           /\ NextSeq(Base(Head(toPd))) \in 0..3
           /\ NextSeq(Base(Head(toPd))) # Base(Head(toPd))
           /\ cmd.code = "KEYSET" => Head(toPd).arg.key = cmd.key
                                     /\ cmd.key \in Keys
                                     /\ state # "SC_SCRYPT"
           /\ cmd.code = "SCRYPT" => state = "SC_SCRYPT"
<1>1. phy = "REPLY_WAIT" /\ Head(toPd).seq = txSeq /\ txSeq \in 0..3
  BY DEF IInv, OneFrame, Numbers
<1>2. Base(Head(toPd)) \in -1..3
  BY <1>1, BaseType DEF IInv
<1> QED
  BY <1>1, <1>2, NextSeqFacts DEF IInv, OneFrame, Asking

LEMMA CacheAfter ==
    \A f : CacheAfterHeader(f) \in {NoCache, cache}
  BY DEF CacheAfterHeader

\* A reply that is no CCRYPT and, unless it is a NAK, answers no KEYSET, in a
\* session with the same keys.
LEMMA ReplyKeeps ==
    ASSUME IInv, toPd # <<>>, UNCHANGED <<cpLink, cpSc>>,
           NEW code, NEW reply, NEW cached \in {NoCache, cache},
           Sent(Head(toPd), code, reply)
             \/ Unsent(Head(toPd), code, reply, cached),
           reply.seq = NextSeq(Base(Head(toPd))),
           reply.code # "CCRYPT",
           reply.code = "ACK" => cmd.code # "KEYSET" /\ code # "KEYSET",
           ~install' => ~pdDflt',
           pds' = [id |-> pds'.id, c |-> pds'.c, r |-> pds'.r],
           pds'.id = pds.id, install' = install,
           UNCHANGED <<pdKey, stored>>
    PROVE  IInv'
<1> USE DEF IInv
<1> DEFINE f == Head(toPd)
<1>1. toPd' = <<>> /\ (toCp' = <<>> \/ toCp' = <<reply>>)
  BY CommandFacts DEF Sent, Unsent
<1>2. pdSeq' \in -1..3
  BY CommandFacts DEF Sent, Unsent
<1>3. \/ cache' = [code |-> code, reply |-> reply]
      \/ cache' = NoCache
      \/ cache' = [code |-> cache.code, reply |-> reply]
         /\ pdSeq' = Base(f)
  BY DEF Sent, Unsent, Shapes
<1>4. Shapes'
  BY <1>3 DEF Shapes, NoCache
<1>5. AckSound'
  BY <1>1, CommandFacts DEF AckSound, cpLink
<1>6. CacheSound'
  BY <1>3, CommandFacts DEF CacheSound
<1>7. ChallengedFirst'
  BY <1>1, <1>3 DEF ChallengedFirst, Undefaulted, cpLink
<1>8. {pdKey', stored'} \subseteq Keys \cup {NoKey}
  BY DEF KeysKnown
<1> QED
  BY <1>1, <1>2, <1>4, <1>5, <1>6, <1>7, <1>8, PdActs

\* Replies() in a session with the same keys.
LEMMA RepliesKeep ==
    ASSUME IInv, toPd # <<>>, UNCHANGED <<cpLink, cpSc>>,
           NEW code, NEW s, NEW active, NEW reply,
           NEW cached \in {NoCache, cache},
           Replies(Head(toPd), code, s, active, cached, reply),
           reply # "CCRYPT",
           reply = "ACK" => cmd.code # "KEYSET" /\ code # "KEYSET",
           ~install' => ~pdDflt',
           s = [id |-> pds.id, c |-> s.c, r |-> s.r],
           UNCHANGED <<install, pdKey, stored>>
    PROVE  IInv'
<1> DEFINE f == Head(toPd)
           r == ReplyTo(f, s, active, FALSE, reply, NoId)
<1>1. Sent(f, code, r) \/ Unsent(f, code, r, cached)
  BY DEF Replies
<1>2. r.seq = NextSeq(Base(f)) /\ r.code = reply
  BY DEF ReplyTo, Frame
<1>3. pds' = [id |-> pds'.id, c |-> pds'.c, r |-> pds'.r] /\ pds'.id = pds.id
  BY DEF Replies, Building
<1> HIDE DEF r
<1> QED
  BY <1>1, <1>2, <1>3, ReplyKeeps

LEMMA DefaultKeyFacts ==
    ASSUME IInv
    PROVE  \A f : ~install => ~DefaultKeyAfter(f)
  BY DEF IInv, ChallengedFirst, DefaultKeyAfter

LEMMA PdStep == IInv /\ PdRefresh => IInv'
<1> SUFFICES ASSUME IInv, PdRefresh PROVE IInv'
  OBVIOUS
<1> USE DEF IInv
<1> DEFINE f == Head(toPd)
<1>0. toPd # <<>> /\ UNCHANGED <<cpLink, cpSc>>
  BY DEF PdRefresh, PdRepeat, PdRefusesSequence, PdRefusesSecurity, PdBadMac,
     PdAnswers, PdKeyset, PdChallenge, PdScrypt
<1>1. CASE PdRepeat
  <2>1. f.seq = pdSeq /\ cache # NoCache /\ cache.code = f.code
    BY <1>1 DEF PdRepeat, CacheHit, Repeats
  <2>2. toPd' = <<>> /\ toCp' = <<cache.reply>>
    BY <1>1 DEF PdRepeat
  <2>3. UNCHANGED <<pdSeq, cache, pdKey, stored, pds, pdDflt, install>>
    BY <1>1 DEF PdRepeat, pdLink, pdSc
  <2>4. AckSound'
    BY <1>0, <2>1, <2>2, <2>3, CommandFacts DEF AckSound, CacheSound, cpLink
  <2>5. Shapes' /\ CacheSound'
    BY <2>3 DEF Shapes, CacheSound
  <2>6. ChallengedFirst'
    BY <1>0, <2>1, <2>2, <2>3 DEF ChallengedFirst, Undefaulted, cpLink
  <2> QED
    BY <1>0, <2>2, <2>3, <2>4, <2>5, <2>6, PdActs DEF Numbers, KeysKnown
<1>2. CASE PdRefusesSequence
  <2>1. Replies(f, pdCmd, pds, ActiveAfterHeader(f), CacheAfterHeader(f), "NAK")
    BY <1>2 DEF PdRefusesSequence
  <2> QED
    BY <1>0, <1>2, <2>1, RepliesKeep, CacheAfter
       DEF PdRefusesSequence, Shapes, ChallengedFirst
<1>3. CASE PdRefusesSecurity
  <2>1. Replies(f, pdCmd, pds, ActiveAfterHeader(f), CacheAfterHeader(f), "NAK")
    BY <1>3 DEF PdRefusesSecurity
  <2> QED
    BY <1>0, <1>3, <2>1, RepliesKeep, CacheAfter
       DEF PdRefusesSecurity, Shapes, ChallengedFirst
<1>4. CASE PdBadMac
  <2>1. Replies(f, pdCmd, Checked(f), AfterBadMac, NoCache, "NAK")
    BY <1>4 DEF PdBadMac
  <2>2. Checked(f) = [id |-> pds.id, c |-> Checked(f).c, r |-> Checked(f).r]
    BY DEF Checked, Shapes
  <2> QED
    BY <1>0, <1>4, <2>1, <2>2, RepliesKeep DEF PdBadMac, ChallengedFirst
<1>5. CASE PdAnswers
  <2>1. Replies(f, f.code, Checked(f), ActiveAfterHeader(f),
                CacheAfterHeader(f), Answer[f.code])
    BY <1>5 DEF PdAnswers
  <2>2. Checked(f) = [id |-> pds.id, c |-> Checked(f).c, r |-> Checked(f).r]
    BY DEF Checked, Shapes
  <2>3. f.code \in {"ID", "CAP", "POLL"} /\ Answer[f.code] # "CCRYPT"
    BY <1>5 DEF PdAnswers, Answer
  <2>4. cmd.code # "KEYSET" /\ f.code # "KEYSET"
    BY <1>0, <2>3, CommandFacts
  <2> QED
    BY <1>0, <1>5, <2>1, <2>2, <2>3, <2>4, RepliesKeep, CacheAfter
       DEF PdAnswers, ChallengedFirst
<1>6. CASE PdKeyset
  <2> DEFINE s == Checked(f)
             r == ReplyTo(f, s, TRUE, FALSE, "ACK", NoId)
  <2>1. /\ f.code = "KEYSET" /\ stored' = f.arg.key
        /\ pds' = Building(s, TRUE, FALSE, "ACK")
    BY <1>6 DEF PdKeyset
  <2>2. /\ cmd.code = "KEYSET" /\ f.arg.key = cmd.key /\ cmd.key \in Keys
        /\ state # "SC_SCRYPT" /\ toCp = <<>>
    BY <1>0, <2>1, CommandFacts
  <2>3. pds' = [id |-> pds.id, c |-> pds'.c, r |-> pds'.r]
    BY <2>1 DEF Building, Checked, Shapes
  <2>4. r.seq = NextSeq(Base(f)) /\ r.code = "ACK"
    BY DEF ReplyTo, Frame
  <2>7. \/ /\ toPd' = <<>> /\ toCp' = <<r>> /\ pdSeq' = NextSeq(Base(f))
           /\ cache' = NoCache /\ pdKey' = StoredKey(f.arg.key)
           /\ pdDflt' = FALSE /\ install' = FALSE
        \/ /\ Unsent(f, "KEYSET", r, CacheAfterHeader(f))
           /\ UNCHANGED <<pdKey, pdDflt, install>>
    BY <1>6 DEF PdKeyset
  <2> HIDE DEF r
  <2>5. CASE toPd' = <<>> /\ toCp' = <<r>> /\ pdSeq' = NextSeq(Base(f))
             /\ cache' = NoCache /\ pdKey' = StoredKey(f.arg.key)
             /\ pdDflt' = FALSE /\ install' = FALSE
    <3>1. Shapes' /\ CacheSound'
      BY <2>3, <2>5 DEF Shapes, CacheSound, NoCache
    <3>2. AckSound'
      BY <1>0, <2>1, <2>2, <2>5 DEF AckSound, cpLink, StoredKey
    <3>3. ChallengedFirst'
      BY <1>0, <2>2, <2>4, <2>5 DEF ChallengedFirst, cpLink
    <3> QED
      BY <1>0, <2>1, <2>2, <2>5, <3>1, <3>2, <3>3, PdActs, CommandFacts
         DEF StoredKey
  <2>6. CASE Unsent(f, "KEYSET", r, CacheAfterHeader(f))
             /\ UNCHANGED <<pdKey, pdDflt, install>>
    <3>1. /\ toPd' = <<>> /\ toCp' = <<>> /\ pdSeq' = Base(f)
          /\ \/ cache' = NoCache
             \/ cache' = [code |-> cache.code, reply |-> r]
      BY <2>2, <2>6, CacheAfter DEF Unsent, Shapes
    <3>2. Shapes' /\ CacheSound'
      BY <1>0, <2>3, <2>4, <3>1, CommandFacts DEF Shapes, CacheSound, NoCache
    <3>3. AckSound'
      BY <3>1 DEF AckSound
    <3>4. ChallengedFirst'
      BY <1>0, <2>2, <2>4, <2>6, <3>1 DEF ChallengedFirst, cpLink
    <3> QED
      BY <1>0, <2>1, <2>2, <2>6, <3>1, <3>2, <3>3, <3>4, PdActs, CommandFacts
         DEF KeysKnown
  <2> QED
    BY <2>5, <2>6, <2>7
<1>7. CASE PdChallenge
  <2> DEFINE id == [key |-> SessionKey(f), cpRnd |-> f.arg.cpRnd,
                    pdRnd |-> Random]
             r  == ReplyTo(f, NoSession, FALSE, TRUE, "CCRYPT", id)
  <2>1. /\ pds' = [NoSession EXCEPT !.id = id]
        /\ pdDflt' = DefaultKeyAfter(f)
        /\ f.code = "CHLNG"
        /\ UNCHANGED <<install, pdKey, stored>>
        /\ Sent(f, "CHLNG", r) \/ Unsent(f, "CHLNG", r, NoCache)
    BY <1>7 DEF PdChallenge
  <2>2. r.code = "CCRYPT"
    BY DEF ReplyTo, Frame
  <2>3. pds' = [id |-> id, c |-> NoMac, r |-> NoMac]
    BY <2>1 DEF NoSession
  <2>4. Undefaulted' /\ (~install' => ~pdDflt')
    BY <2>1, <2>3, DefaultKeyFacts, SecureChannelAssumption
       DEF Undefaulted, SessionKey, KeysKnown
  <2>5. /\ toPd' = <<>> /\ toCp' \in {<<>>, <<r>>}
        /\ pdSeq' \in -1..3
        /\ cache' \in {NoCache, [code |-> "CHLNG", reply |-> r]}
    <3> HIDE DEF r
    <3> QED
      BY <1>0, <2>1, CommandFacts DEF Sent, Unsent
  <2> HIDE DEF r, id
  <2>6. Shapes' /\ CacheSound' /\ AckSound' /\ ChallengedFirst'
    <3>1. Shapes' /\ CacheSound'
      BY <2>2, <2>3, <2>5 DEF Shapes, CacheSound, NoCache
    <3>2. AckSound'
      BY <2>2, <2>5 DEF AckSound
    <3>3. ChallengedFirst'
      BY <2>4 DEF ChallengedFirst
    <3> QED
      BY <3>1, <3>2, <3>3
  <2> QED
    BY <1>0, <2>1, <2>5, <2>6, PdActs DEF KeysKnown
<1>8. CASE PdScrypt
  <2> DEFINE s == [pds EXCEPT !.r = RMacI(pds)]
             r == ReplyTo(f, s, FALSE, TRUE, "RMAC_I", pds.id)
  <2>1. /\ pdDflt' = DefaultKeyAfter(f)
        /\ UNCHANGED <<install, pdKey, stored>>
    BY <1>8 DEF PdScrypt
  <2>2. ~install' => ~pdDflt'
    BY <2>1, DefaultKeyFacts
  <2>3. CASE pds' = s /\ (Sent(f, "SCRYPT", r)
                           \/ Unsent(f, "SCRYPT", r, CacheAfterHeader(f)))
    <3>1. r.seq = NextSeq(Base(f)) /\ r.code = "RMAC_I"
      BY DEF ReplyTo, Frame
    <3>2. pds' = [id |-> pds'.id, c |-> pds'.c, r |-> pds'.r]
          /\ pds'.id = pds.id
      BY <2>3 DEF Shapes
    <3> HIDE DEF r
    <3> QED
      BY <1>0, <2>1, <2>2, <2>3, <3>1, <3>2, ReplyKeeps, CacheAfter
  <2>4. CASE Replies(f, "SCRYPT", pds, ActiveAfterHeader(f),
                     CacheAfterHeader(f), "NAK")
    <3>1. pds = [id |-> pds.id, c |-> pds.c, r |-> pds.r]
      BY DEF Shapes
    <3>2. CacheAfterHeader(f) \in {NoCache, cache}
      BY CacheAfter
    <3> QED
      BY <1>0, <2>1, <2>2, <2>4, <3>1, <3>2, RepliesKeep
  <2> QED
    BY <1>8, <2>3, <2>4 DEF PdScrypt
<1> QED
  BY <1>1, <1>2, <1>3, <1>4, <1>5, <1>6, <1>7, <1>8 DEF PdRefresh

-----------------------------------------------------------------------------
(* The CP's steps, and what may go wrong *)

LEMMA TransmitFacts ==
    ASSUME NEW c, NEW seq, Transmit(c, seq)
    PROVE  \E x : /\ toPd' = <<x>> /\ x.code = c.code /\ x.seq = seq
                  /\ c.code = "KEYSET" => x.arg.key = c.key
  BY DEF Transmit, Frame, Argument, NoId

LEMMA SendKeeps ==
    ASSUME IInv, NEW c, NEW seq, Transmit(c, seq),
           cmd' = c, phy' = "REPLY_WAIT", txSeq' = seq, seq \in 0..3,
           cpSeq' \in -1..3, seq = NextSeq(cpSeq'),
           toCp = <<>>, state # "OFFLINE",
           c.code = "KEYSET" => state \in {"SET_SCBK", "ONLINE"}
                                /\ c.key \in Keys,
           c.code = "SCRYPT" => state = "SC_SCRYPT",
           UNCHANGED <<state, cpKey, pdLink, pdSc, toCp>>
    PROVE  IInv'
<1> USE DEF IInv
<1>1. PICK x : /\ toPd' = <<x>> /\ x.code = c.code /\ x.seq = seq
               /\ c.code = "KEYSET" => x.arg.key = c.key
  BY TransmitFacts
<1>2. Numbers' /\ KeysKnown' /\ Shapes' /\ CacheSound'
  BY DEF Numbers, KeysKnown, Shapes, CacheSound, pdLink, pdSc
<1>3. Asking' /\ OneFrame' /\ AckSound'
  BY <1>1 DEF Asking, OneFrame, AckSound
<1>4. ChallengedFirst'
  BY DEF ChallengedFirst, Undefaulted, pdLink, pdSc
<1> QED
  BY <1>2, <1>3, <1>4

LEMMA CpStep == IInv /\ (CpRefresh \/ CpScRetry) => IInv'
<1> SUFFICES ASSUME IInv, CpRefresh \/ CpScRetry PROVE IInv'
  OBVIOUS
<1> USE DEF IInv
<1>0. cpSeq \in -1..3 /\ NextSeq(cpSeq) \in -1..3
  BY NextSeqFacts DEF Numbers
<1>1. CASE CpSend
  <2>1. PICK c \in Commands : cmd' = c /\ txSeq' = NextSeq(cpSeq)
                              /\ Transmit(c, NextSeq(cpSeq))
    BY <1>1 DEF CpSend
  <2>2. /\ c.code = "KEYSET" => state \in {"SET_SCBK", "ONLINE"} /\ c.key \in Keys
        /\ c.code = "SCRYPT" => state = "SC_SCRYPT"
        /\ state # "OFFLINE"
    BY <2>1 DEF Commands, NoCmd, KeysKnown
  <2>3. NextSeq(cpSeq) \in 0..3
    BY NextSeqFacts DEF Numbers
  <2>4. toCp = <<>> /\ phy' = "REPLY_WAIT" /\ cpSeq' = cpSeq
        /\ UNCHANGED <<state, cpKey, pdLink, pdSc, toCp>>
    BY <1>1 DEF CpSend, OneFrame
  <2> QED
    BY <1>0, <2>1, <2>2, <2>3, <2>4, SendKeeps
<1>2. CASE CpRetry
  <2>1. /\ txSeq - 1 \in -1..3 /\ NextSeq(txSeq - 1) \in 0..3
    BY NextSeqFacts DEF Numbers
  <2>2. /\ Transmit(cmd, NextSeq(txSeq - 1))
        /\ cpSeq' = txSeq - 1 /\ txSeq' = NextSeq(txSeq - 1)
        /\ phy = "WAIT" /\ phy' = "REPLY_WAIT" /\ cmd' = cmd
        /\ UNCHANGED <<state, cpKey, pdLink, pdSc, toCp>>
    BY <1>2 DEF CpRetry
  <2>3. /\ toCp = <<>> /\ state # "OFFLINE"
        /\ cmd.code = "KEYSET" => state \in {"SET_SCBK", "ONLINE"}
                                  /\ cmd.key \in Keys
        /\ cmd.code = "SCRYPT" => state = "SC_SCRYPT"
    BY <2>2 DEF Asking, OneFrame
  <2> QED
    BY <2>1, <2>2, <2>3, SendKeeps
<1>3. CASE CpTimeout
  <2>1. CASE retry < MaxRetries
    <3>1. /\ phy = "REPLY_WAIT" /\ toPd = <<>> /\ toCp = <<>> /\ phy' = "WAIT"
          /\ UNCHANGED <<state, cpSeq, txSeq, cmd, cpSc, toCp, pdLink, pdSc, toPd>>
      BY <1>3, <2>1 DEF CpTimeout
    <3>2. Numbers' /\ KeysKnown' /\ Shapes' /\ CacheSound'
      BY <3>1 DEF Numbers, KeysKnown, Shapes, CacheSound, pdLink, pdSc, cpSc
    <3>3. Asking' /\ OneFrame' /\ AckSound' /\ ChallengedFirst'
      BY <3>1 DEF Asking, OneFrame, AckSound, ChallengedFirst, Undefaulted,
         pdLink, pdSc
    <3> QED
      BY <3>2, <3>3
  <2>2. CASE ~(retry < MaxRetries)
    BY <1>0, <1>3, <2>2, FailsLeaves DEF CpTimeout
  <2> QED
    BY <2>1, <2>2
<1>4. CASE CpReconnect
  <2>1. /\ state = "OFFLINE" /\ state' = "INIT" /\ cpSeq' = -1 /\ txSeq' = 0
        /\ UNCHANGED <<phy, cmd, cpSc, pdLink, pdSc, toPd, toCp>>
    BY <1>4 DEF CpReconnect, line
  <2>2. Numbers' /\ KeysKnown' /\ Shapes' /\ CacheSound'
    BY <2>1 DEF Numbers, KeysKnown, Shapes, CacheSound, pdLink, pdSc, cpSc
  <2>3. Asking' /\ OneFrame' /\ AckSound' /\ ChallengedFirst'
    BY <2>1 DEF Asking, OneFrame, AckSound, ChallengedFirst, Undefaulted,
       pdLink, pdSc
  <2> QED
    BY <2>2, <2>3
<1>5. CASE CpHears
  <2> DEFINE r == Head(toCp)
             s == Hearing(r)
  <2>1. /\ Heard /\ InSequence(r) /\ toPd = <<>>
        /\ UNCHANGED <<pdLink, pdSc, toPd>>
    BY <1>5 DEF CpHears, Heard, OneFrame
  <2>2. \/ \E n \in {cpSeq, NextSeq(cpSeq)} : \E k, a : Fails(n, k, s, a)
        \/ r.code = Expected[state] /\ Succeeds(NextSeq(cpSeq), s)
    BY <1>5 DEF CpHears
  <2> QED
    BY <1>0, <2>1, <2>2, FailsLeaves, SucceedsLeaves
<1>6. CASE CpRefuses
  BY <1>0, <1>6, FailsLeaves DEF CpRefuses, Heard, OneFrame
<1>7. CASE CpSeqMismatch
  <2> DEFINE n == "OFFLINE"
  <2>1. /\ \E spent, a : Enter(n, cpSeq, spent, cps, a)
        /\ toPd = <<>> /\ cpKey' \in Keys
        /\ UNCHANGED <<pdLink, pdSc, toPd>>
    BY <1>7 DEF CpSeqMismatch, Heard, OneFrame, KeysKnown
  <2>2. n # "SC_SCRYPT"
    OBVIOUS
  <2> HIDE DEF n
  <2> QED
    BY <1>0, <2>1, <2>2, Leaves
<1>8. CASE CpScRetry
  <2> DEFINE n == "SC_CHLNG"
  <2>1. /\ \E spent, a : Enter(n, cpSeq, spent, cps, a)
        /\ toPd = <<>> /\ cpKey' \in Keys
        /\ UNCHANGED <<pdLink, pdSc, toPd>>
    BY <1>8 DEF CpScRetry, OneFrame, KeysKnown
  <2>2. n # "SC_SCRYPT"
    OBVIOUS
  <2> HIDE DEF n
  <2> QED
    BY <1>0, <2>1, <2>2, Leaves
<1> QED
  BY <1>1, <1>2, <1>3, <1>4, <1>5, <1>6, <1>7, <1>8 DEF CpRefresh

LEMMA DisturbanceStep == IInv /\ Disturbance => IInv'
<1> SUFFICES ASSUME IInv, Disturbance PROVE IInv'
  OBVIOUS
<1> USE DEF IInv
<1>1. CASE CpNoise
  BY <1>1, FailsLeaves DEF CpNoise, Heard, OneFrame, Numbers
<1>2. CASE CpRestart
  <2>1. Numbers' /\ KeysKnown' /\ Shapes' /\ CacheSound'
    BY <1>2 DEF CpRestart, Numbers, KeysKnown, Shapes, CacheSound, pdLink, pdSc
  <2>2. Asking' /\ OneFrame' /\ AckSound' /\ ChallengedFirst'
    BY <1>2 DEF CpRestart, Asking, OneFrame, AckSound, ChallengedFirst,
       Undefaulted, pdLink, pdSc
  <2> QED
    BY <2>1, <2>2
<1>3. CASE PdNoise
  <2>1. Numbers' /\ KeysKnown' /\ Shapes' /\ CacheSound'
    BY <1>3 DEF PdNoise, Numbers, KeysKnown, Shapes, CacheSound, NoCache, cpLink,
       cpSc
  <2>2. Asking' /\ OneFrame' /\ AckSound' /\ ChallengedFirst'
    BY <1>3 DEF PdNoise, Asking, OneFrame, AckSound, ChallengedFirst,
       Undefaulted, cpLink, cpSc
  <2> QED
    BY <2>1, <2>2
<1>4. CASE PdSilence
  <2>1. Numbers' /\ KeysKnown' /\ Shapes' /\ CacheSound'
    BY <1>4 DEF PdSilence, Numbers, KeysKnown, Shapes, CacheSound, NoCache,
       cpLink, cpSc
  <2>2. Asking' /\ OneFrame' /\ AckSound' /\ ChallengedFirst'
    BY <1>4 DEF PdSilence, Asking, OneFrame, AckSound, ChallengedFirst,
       Undefaulted, cpLink, cpSc
  <2> QED
    BY <2>1, <2>2
<1>5. CASE PdRestart
  <2>1. Numbers' /\ KeysKnown' /\ Shapes' /\ CacheSound'
    BY <1>5 DEF PdRestart, Numbers, KeysKnown, Shapes, CacheSound, NoCache,
       NoSession, cpLink, cpSc
  <2>2. Asking' /\ OneFrame' /\ AckSound'
    BY <1>5 DEF PdRestart, Asking, OneFrame, AckSound, cpLink, cpSc
  <2>3. ChallengedFirst'
    BY <1>5, SecureChannelAssumption DEF PdRestart, ChallengedFirst, Undefaulted,
       NoSession, NoId, cpLink, cpSc
  <2> QED
    BY <2>1, <2>2, <2>3
<1>6. CASE LoseCommand \/ LoseReply
  <2>1. Numbers' /\ KeysKnown' /\ Shapes' /\ CacheSound'
    BY <1>6 DEF LoseCommand, LoseReply, Numbers, KeysKnown, Shapes, CacheSound,
       cpLink, cpSc, pdLink, pdSc
  <2>2. Asking' /\ OneFrame' /\ AckSound' /\ ChallengedFirst'
    BY <1>6 DEF LoseCommand, LoseReply, Asking, OneFrame, AckSound,
       ChallengedFirst, Undefaulted, cpLink, cpSc, pdLink, pdSc
  <2> QED
    BY <2>1, <2>2
<1> QED
  BY <1>1, <1>2, <1>3, <1>4, <1>5, <1>6 DEF Disturbance

-----------------------------------------------------------------------------
(* The theorems *)

LEMMA Initially == Init => IInv
<1> SUFFICES ASSUME Init PROVE IInv
  OBVIOUS
<1>1. Numbers /\ KeysKnown /\ Shapes
  BY DEF Init, Numbers, KeysKnown, Shapes, NoSession, NoCache
<1>2. Asking /\ OneFrame /\ AckSound /\ CacheSound
  BY DEF Init, Asking, OneFrame, AckSound, CacheSound
<1>3. ChallengedFirst
  BY SecureChannelAssumption DEF Init, ChallengedFirst
<1> QED
  BY <1>1, <1>2, <1>3 DEF IInv

LEMMA InductiveStep == IInv /\ [Next]_vars => IInv'
<1>1. IInv /\ UNCHANGED vars => IInv'
  BY DEF vars, cpLink, cpSc, pdLink, pdSc, line, IInv, Numbers, KeysKnown,
     Shapes, Asking, OneFrame, AckSound, CacheSound, ChallengedFirst,
     Undefaulted, NextSeq
<1> QED
  BY <1>1, CpStep, PdStep, DisturbanceStep DEF Next

THEOREM Inductive == Spec => []IInv
  BY Initially, InductiveStep, PTL DEF Spec

\* cp_keyset_complete(): the CP commits a new key only once the PD has stored
\* and committed it, whatever was lost, repeated, cached or could not be sent.
THEOREM KeyCommitsAtBothEnds == Spec => CommitMeansStored
<1>1. ASSUME IInv, [Next]_vars PROVE cpKey' # cpKey => pdKey = cpKey'
  <2> SUFFICES ASSUME cpKey' # cpKey PROVE pdKey = cpKey'
    OBVIOUS
  <2>1. CASE CpHears
    <3> DEFINE r == Head(toCp)
               s == Hearing(r)
    <3>1. Heard /\ InSequence(r) /\ UNCHANGED <<pdLink, pdSc, toPd>>
      BY <2>1 DEF CpHears
    <3>2. r.code = Expected[state] /\ Succeeds(NextSeq(cpSeq), s)
      BY <2>1 DEF CpHears, Fails
    <3> QED
      BY <1>1, <3>1, <3>2, SucceedsLeaves
  <2> QED
    BY <1>1, <2>1 DEF Next, CpRefresh, PdRefresh, Disturbance, CpSend, CpRetry,
       CpTimeout, CpReconnect, CpRefuses, CpSeqMismatch, CpScRetry, CpNoise,
       CpRestart, Fails, PdRepeat, PdRefusesSequence, PdRefusesSecurity,
       PdBadMac, PdAnswers, PdKeyset, PdChallenge, PdScrypt, PdNoise, PdSilence,
       PdRestart, LoseCommand, LoseReply, vars, cpSc
<1>2. IInv /\ [Next]_vars => [cpKey' # cpKey => pdKey = cpKey']_vars
  BY <1>1
<1> QED
  BY Inductive, <1>2, PTL DEF Spec, CommitMeansStored

\* A PD that is out of install mode opens no session on the default key: what a
\* CP proves with SCRYPT is a session the PD chose the key of since.
THEOREM DefaultKeyEnds == Spec => DefaultKeyOver
<1>1. ASSUME IInv, [Next]_vars
      PROVE  pdActive' /\ ~pdActive /\ ~install => pds.id.key # ScbkD
  <2> SUFFICES ASSUME pdActive', ~pdActive, ~install PROVE pds.id.key # ScbkD
    OBVIOUS
  <2>1. CASE PdScrypt
    <3>1. toPd # <<>> /\ cmd.code = "SCRYPT"
      BY <1>1, <2>1, CommandFacts DEF PdScrypt
    <3> QED
      BY <1>1, <3>1, CommandFacts DEF IInv, ChallengedFirst, Undefaulted
  <2>2. \A f : ~ActiveAfterHeader(f)
    BY DEF ActiveAfterHeader
  <2> QED
    BY <1>1, <2>1, <2>2 DEF Next, CpRefresh, PdRefresh, Disturbance, CpSend,
       CpRetry, CpTimeout, CpReconnect, CpHears, CpRefuses, CpSeqMismatch,
       CpScRetry, CpNoise, CpRestart, PdRepeat, PdRefusesSequence,
       PdRefusesSecurity, PdBadMac, AfterBadMac, PdAnswers, Replies, PdKeyset,
       PdChallenge, PdNoise, PdSilence, PdRestart, LoseCommand, LoseReply, vars,
       pdSc
<1>2. IInv /\ [Next]_vars
        => [pdActive' /\ ~pdActive /\ ~install => pds.id.key # ScbkD]_vars
  BY <1>1
<1> QED
  BY Inductive, <1>2, PTL DEF Spec, DefaultKeyOver

-----------------------------------------------------------------------------
(* The two ends of a session.  What a CP takes for the answer to its command is
   what the PD built last, and a sequence number that fits tells how far the PD
   is; so the MAC chains agree, and nothing but a reply that fits moves the
   CP's on.                                                                  *)

\* The reply the PD built last, of the session it has now.
LastBuilt(r) ==
    /\ r.sec = "mac" => r.mac = pds.r
    /\ r.code = "RMAC_I" => r.arg = pds.id /\ pds.r = RMacI(pds) /\ pdActive
    /\ r.code = "CCRYPT" => r.arg = pds.id /\ ~pdActive

\* What is cached and what is on the line is that one.
Current ==
    /\ cache # NoCache => LastBuilt(cache.reply)
    /\ toCp # <<>> /\ (pdActive \/ ~hurt) =>
          /\ LastBuilt(Head(toCp))
          /\ Head(toCp).seq = txSeq => pdSeq = txSeq

Places == 0..(Wrap - 1)

\* The CP's end of a session.
CpChain ==
    /\ cps = [id |-> cps.id, c |-> cps.c, r |-> cps.r]
    /\ cps.c.n \in Places /\ cps.r.n \in Places
    /\ cpActive \in BOOLEAN /\ retry \in 0..MaxRetries /\ trouble \in Nat
    /\ phy # "IDLE" /\ cmd.code = "CHLNG" => state = "SC_CHLNG"
    /\ cpActive => state \in {"SET_SCBK", "ONLINE"} /\ cpSeq \in 0..3
    /\ cpActive /\ phy # "IDLE" =>
          /\ txSeq \in 1..3
          /\ cmd.code \in {"POLL", "KEYSET"}
          /\ cps.c = Mac(cps, cps.r, cmd.code)
    /\ cpActive /\ toPd # <<>> => Head(toPd).sec = "mac" /\ Head(toPd).mac = cps.c

\* Both ends in one session: the PD has answered the CP's last command, or the
\* one that is under way.
Together ==
    SameSession =>
        /\ phy = "IDLE" => pds.r = cps.r /\ pdSeq = cpSeq
        /\ phy # "IDLE" =>
              /\ pdSeq = txSeq \/ NextSeq(pdSeq) = txSeq
              /\ pds.r = cps.r \/ pds.r.n = (cps.r.n + 2) % Wrap

\* What a session that was only hurt by losses can rely on: a POLL is answered
\* for the first time, or from the cache.
GoodReply(r) ==
    /\ r.seq = txSeq /\ r.sec = "mac" /\ r.code = "ACK"
    /\ r.mac = Mac(cps, cps.c, "ACK")
Answering ==
    \/ NextSeq(pdSeq) = txSeq /\ pds.r = cps.r /\ toCp = <<>>
    \/ /\ pdSeq = txSeq
       /\ cache # NoCache /\ cache.code = "POLL" /\ GoodReply(cache.reply)
Unhurt ==
    ~hurt =>
        /\ state = "SC_SCRYPT" => pds.id = cps.id
        /\ cpActive /\ (phy # "IDLE" => cmd.code = "POLL") =>
              /\ pdActive /\ pds.id = cps.id
              /\ phy # "IDLE" => Answering
              /\ toCp # <<>> => GoodReply(Head(toCp))

SInv == Current /\ CpChain /\ Together /\ Unhurt

-----------------------------------------------------------------------------
(* Numbers *)

\* A repeat has the number of the command it repeats.
LEMMA RepeatFacts ==
    /\ \A s \in 0..3 : NextSeq(s - 1) = s
    /\ \A s \in 1..3 : NextSeq(Rollback(s)) = s
    /\ \A s \in 0..3 : NextSeq(s) \in 1..3
  BY DEF NextSeq, Rollback

\* The place in the chain is counted modulo Wrap.
LEMMA PlaceFacts ==
    ASSUME NEW x \in Places
    PROVE  /\ (x + 1) % Wrap \in Places
           /\ (((x + 1) % Wrap) + 1) % Wrap = (x + 2) % Wrap
<1>1. Wrap \in Nat \ {0} /\ x \in 0..(Wrap - 1)
  BY SecureChannelAssumption DEF Places
<1>2. \A W \in Nat \ {0} : \A a \in 0..(W - 1) : a % W = a
  OBVIOUS
<1>3. \A W \in Nat \ {0} : W % W = 0 /\ (W # 1 => (W + 1) % W = 1) /\ 2 % 1 = 0
  OBVIOUS
<1>4. (x + 1) % Wrap \in Places
  BY <1>1 DEF Places
<1>5. CASE x + 1 < Wrap
  <2>1. (x + 1) % Wrap = x + 1
    BY <1>1, <1>2, <1>5
  <2>2. (x + 1) + 1 = x + 2
    BY <1>1
  <2> QED
    BY <1>4, <2>1, <2>2
<1>6. CASE x + 1 = Wrap
  <2>1. (x + 1) % Wrap = 0
    BY <1>1, <1>3, <1>6
  <2>2. (x + 2) % Wrap = (Wrap + 1) % Wrap
    BY <1>1, <1>6
  <2>3. CASE Wrap = 1
    <3>1. (Wrap + 1) % Wrap = 0 /\ (0 + 1) % Wrap = 0
      BY <1>3, <2>3
    <3> QED
      BY <1>4, <2>1, <2>2, <3>1
  <2>4. CASE Wrap # 1
    <3>1. 0 + 1 \in 0..(Wrap - 1) /\ 0 + 1 = 1
      BY <1>1, <2>4
    <3>2. (0 + 1) % Wrap = 1 /\ (Wrap + 1) % Wrap = 1
      BY <1>1, <1>2, <1>3, <2>4, <3>1
    <3> QED
      BY <1>4, <2>1, <2>2, <3>2
  <2> QED
    BY <2>3, <2>4
<1> QED
  BY <1>1, <1>4, <1>5, <1>6

-----------------------------------------------------------------------------
(* The PD's steps, in a session *)

\* What a step of the PD asks, besides: the CP stands still.
LEMMA CpStandsStill ==
    ASSUME SInv, UNCHANGED <<cpLink, cpSc>>, toPd' = <<>>, trouble' \in Nat
    PROVE  CpChain'
  BY DEF SInv, CpChain, cpLink, cpSc, Mac

\* The reply that was built is the one on the line, or the one in the cache.
LEMMA ReplyIsCurrent ==
    ASSUME IInv, toPd # <<>>, UNCHANGED <<cpLink, cpSc>>,
           NEW code, NEW r, NEW cached \in {NoCache, cache},
           Sent(Head(toPd), code, r) \/ Unsent(Head(toPd), code, r, cached),
           r.seq = NextSeq(Base(Head(toPd))), LastBuilt(r)'
    PROVE  /\ Current' /\ toPd' = <<>>
           /\ pdSeq' \in {Base(Head(toPd)), NextSeq(Base(Head(toPd)))}
           /\ \/ hurt'
              \/ /\ toCp' = <<r>> /\ pdSeq' = r.seq /\ hurt' = hurt
                 /\ cache' = [code |-> code, reply |-> r]
<1>1. CASE Sent(Head(toPd), code, r)
  <2>1. /\ toPd' = <<>> /\ toCp' = <<r>> /\ pdSeq' = r.seq /\ hurt' = hurt
        /\ cache' = [code |-> code, reply |-> r]
    BY <1>1 DEF Sent
  <2>2. cache'.reply = r /\ Head(toCp') = r
    BY <2>1
  <2>3. Current'
    BY <2>1, <2>2, CommandFacts DEF Current, cpLink
  <2> QED
    BY <2>1, <2>3
<1>2. CASE Unsent(Head(toPd), code, r, cached)
  <2>1. /\ toPd' = <<>> /\ toCp' = <<>> /\ pdSeq' = Base(Head(toPd)) /\ hurt'
        /\ \/ cache' = NoCache
           \/ cache' = [code |-> cache.code, reply |-> r]
    BY <1>2, CommandFacts DEF Unsent, IInv, Shapes
  <2>2. cache' # NoCache => cache'.reply = r
    BY <2>1
  <2>3. Current'
    BY <2>1, <2>2 DEF Current
  <2> QED
    BY <2>1, <2>3
<1> QED
  BY <1>1, <1>2

LEMMA TroubleCounted ==
    ASSUME SInv, NEW f, NEW code, NEW r, NEW cached,
           Sent(f, code, r) \/ Unsent(f, code, r, cached)
    PROVE  trouble' \in Nat
  BY DEF Sent, Unsent, Trouble, SInv, CpChain

\* The sequence number a PD in the CP's session expects is the one it gets.
LEMMA SequenceFits ==
    ASSUME IInv, SInv, toPd # <<>>, SameSession, ~Restarts(Head(toPd))
    PROVE  /\ NextSeq(Base(Head(toPd))) = Head(toPd).seq
           /\ Head(toPd).seq = txSeq /\ txSeq \in 1..3
<1>1. Head(toPd).seq = txSeq /\ phy # "IDLE" /\ cpActive
  BY CommandFacts DEF SameSession
<1>2. txSeq \in 1..3 /\ (pdSeq = txSeq \/ NextSeq(pdSeq) = txSeq)
  BY <1>1 DEF SInv, CpChain, Together
<1>3. CASE Repeats(Head(toPd))
  BY <1>1, <1>2, <1>3, RepeatFacts DEF Base, Repeats
<1>4. CASE ~Repeats(Head(toPd))
  BY <1>1, <1>2, <1>4 DEF Base, Repeats
<1> QED
  BY <1>1, <1>2, <1>3, <1>4

\* Commands in the CP's session carry its MAC.
LEMMA CommandInSession ==
    ASSUME IInv, SInv, toPd # <<>>, cpActive
    PROVE  /\ Head(toPd).sec = "mac" /\ Head(toPd).mac = Mac(cps, cps.r, cmd.code)
           /\ cps.c = Mac(cps, cps.r, cmd.code)
           /\ Head(toPd).code = cmd.code /\ cmd.code \in {"POLL", "KEYSET"}
           /\ cps.r.n \in Places
<1>1. phy # "IDLE" /\ Head(toPd).code = cmd.code
  BY CommandFacts
<1> QED
  BY <1>1 DEF SInv, CpChain

\* A command whose MAC fits takes the PD one exchange ahead.
LEMMA OneAhead ==
    ASSUME IInv, SInv, toPd # <<>>, SameSession, Genuine(Head(toPd)), NEW reply
    PROVE  Mac(Checked(Head(toPd)), Checked(Head(toPd)).c, reply).n = (cps.r.n + 2) % Wrap
<1> DEFINE s == Checked(Head(toPd))
<1>1. Head(toPd).sec = "mac" /\ Head(toPd).mac = Mac(cps, cps.r, cmd.code)
      /\ cps.r.n \in Places
  BY CommandInSession DEF SameSession
<1>2. s.c = Mac(cps, cps.r, cmd.code)
  BY <1>1 DEF Genuine
<1>3. s.c.n = (cps.r.n + 1) % Wrap
  BY <1>2 DEF Mac
<1>4. Mac(s, s.c, reply).n = (s.c.n + 1) % Wrap
  BY DEF Mac
<1>5. (((cps.r.n + 1) % Wrap) + 1) % Wrap = (cps.r.n + 2) % Wrap
  BY <1>1, PlaceFacts
<1> QED
  BY <1>3, <1>4, <1>5

\* A POLL that finds the PD behind is checked out; one that finds it ahead is
\* answered from the cache.
LEMMA PollFacts ==
    ASSUME IInv, SInv, toPd # <<>>, ~hurt, cpActive, cmd.code = "POLL"
    PROVE  /\ pdActive /\ pds.id = cps.id /\ Head(toPd).code = "POLL"
           /\ \/ /\ CacheHit(Head(toPd)) /\ GoodReply(cache.reply)
              \/ /\ Genuine(Head(toPd)) /\ Checked(Head(toPd)).c = cps.c
                 /\ ActiveAfterHeader(Head(toPd))
<1> DEFINE f == Head(toPd)
<1>1. /\ phy # "IDLE" /\ f.seq = txSeq /\ txSeq \in 1..3 /\ f.code = "POLL"
      /\ f.sec = "mac" /\ f.mac = cps.c /\ cps.c = Mac(cps, cps.r, "POLL")
  BY CommandFacts, CommandInSession DEF SInv, CpChain
<1>2. pdActive /\ pds.id = cps.id /\ Answering
  BY <1>1 DEF SInv, Unhurt
<1>3. ~Restarts(f) /\ ActiveAfterHeader(f)
  BY <1>1, <1>2 DEF Restarts, ActiveAfterHeader
<1>4. CASE NextSeq(pdSeq) = txSeq /\ pds.r = cps.r
  <2>1. pdSeq # txSeq
    BY <1>4, NextSeqFacts DEF IInv, Numbers
  <2>2. Fresh(f)
    BY <1>1, <1>3, <1>4, <2>1 DEF Fresh, CacheHit, Repeats, Base
  <2>3. ~Unsuitable(f)
    BY <1>1, <1>3 DEF Unsuitable
  <2>4. Checked(f).c = Mac(pds, pds.r, "POLL")
    BY <1>1 DEF Checked, IInv, Shapes
  <2>5. Mac(pds, pds.r, "POLL") = Mac(cps, cps.r, "POLL")
    BY <1>2, <1>4 DEF Mac
  <2> QED
    BY <1>1, <1>2, <1>3, <2>2, <2>3, <2>4, <2>5 DEF Genuine
<1>5. CASE /\ pdSeq = txSeq
           /\ cache # NoCache /\ cache.code = "POLL" /\ GoodReply(cache.reply)
  BY <1>1, <1>2, <1>3, <1>5 DEF CacheHit, Repeats
<1> QED
  BY <1>2, <1>4, <1>5 DEF Answering

\* What a step of the PD that answers in a session leaves behind.  A POLL that
\* is answered within the session of the CP is answered well.
LEMMA PdAnswered ==
    ASSUME IInv, SInv, toPd # <<>>, UNCHANGED <<cpLink, cpSc>>,
           NEW code, NEW r, NEW cached \in {NoCache, cache},
           Sent(Head(toPd), code, r) \/ Unsent(Head(toPd), code, r, cached),
           r.seq = NextSeq(Base(Head(toPd))), LastBuilt(r)',
           cpActive /\ pdActive' /\ pds'.id = cps.id =>
              pds'.r.n = (cps.r.n + 2) % Wrap /\ SameSession /\ ~Restarts(Head(toPd)),
           pds'.id = pds.id \/ cmd.code = "CHLNG",
           cpActive /\ cmd.code = "POLL" /\ ~hurt => GoodReply(r) /\ pdActive'
                                                     /\ code = "POLL"
    PROVE  SInv'
<1>1. /\ Current' /\ toPd' = <<>>
      /\ pdSeq' \in {Base(Head(toPd)), NextSeq(Base(Head(toPd)))}
      /\ \/ hurt'
         \/ /\ toCp' = <<r>> /\ pdSeq' = r.seq /\ hurt' = hurt
            /\ cache' = [code |-> code, reply |-> r]
  BY ReplyIsCurrent
<1>2. CpChain'
  BY <1>1, CpStandsStill, TroubleCounted
<1>3. /\ UNCHANGED <<state, phy, cpSeq, txSeq, cmd, cpActive, cps>> /\ phy # "IDLE"
  BY CommandFacts DEF cpLink, cpSc
<1>4. Together'
  <2> SUFFICES ASSUME SameSession' PROVE Together'
    BY DEF Together
  <2>1. /\ pds'.r.n = (cps.r.n + 2) % Wrap /\ SameSession /\ ~Restarts(Head(toPd))
    BY <1>3 DEF SameSession
  <2>2. pdSeq' = txSeq \/ NextSeq(pdSeq') = txSeq
    BY <1>1, <2>1, SequenceFits
  <2> QED
    BY <1>3, <2>1, <2>2 DEF Together
<1>5. Unhurt'
  <2> SUFFICES ASSUME ~hurt' PROVE Unhurt'
    BY DEF Unhurt
  <2>1. /\ toCp' = <<r>> /\ pdSeq' = r.seq /\ ~hurt
        /\ cache' = [code |-> code, reply |-> r]
    BY <1>1
  <2>2. state = "SC_SCRYPT" => pds'.id = cps.id
    BY <1>3, <2>1 DEF SInv, Unhurt, CpChain
  <2>3. CASE cpActive /\ cmd.code = "POLL"
    <3>1. pds'.id = cps.id /\ pdActive' /\ GoodReply(r) /\ code = "POLL"
      BY <1>3, <2>1, <2>3 DEF SInv, Unhurt
    <3>2. GoodReply(r)'
      BY <1>3, <3>1 DEF GoodReply, Mac
    <3>3. cache' # NoCache /\ cache'.code = "POLL" /\ cache'.reply = r /\ Head(toCp') = r
      BY <2>1, <3>1 DEF NoCache
    <3>4. Answering'
      BY <1>3, <2>1, <3>1, <3>2, <3>3 DEF Answering, GoodReply
    <3> QED
      BY <1>3, <2>2, <3>1, <3>2, <3>3, <3>4 DEF Unhurt, GoodReply
  <2>4. CASE ~(cpActive /\ cmd.code = "POLL")
    BY <1>3, <2>2, <2>4 DEF Unhurt
  <2> QED
    BY <2>3, <2>4
<1> QED
  BY <1>1, <1>2, <1>4, <1>5 DEF SInv

\* Replies() as such a step.
LEMMA RepliesInSession ==
    ASSUME IInv, SInv, toPd # <<>>, UNCHANGED <<cpLink, cpSc>>,
           NEW code, NEW s, NEW active \in BOOLEAN, NEW reply,
           NEW cached \in {NoCache, cache},
           Replies(Head(toPd), code, s, active, cached, reply),
           reply \notin {"RMAC_I", "CCRYPT"},
           s = [id |-> pds.id, c |-> s.c, r |-> s.r],
           cpActive /\ active /\ pds.id = cps.id =>
              /\ Mac(s, s.c, reply).n = (cps.r.n + 2) % Wrap
              /\ SameSession /\ ~Restarts(Head(toPd)),
           cpActive /\ cmd.code = "POLL" /\ ~hurt =>
              active /\ s.c = cps.c /\ reply = "ACK" /\ code = "POLL"
    PROVE  SInv'
<1>1. PICK r : r = ReplyTo(Head(toPd), s, active, FALSE, reply, NoId)
  OBVIOUS
<1>2. /\ Sent(Head(toPd), code, r) \/ Unsent(Head(toPd), code, r, cached)
      /\ pds' = Building(s, active, FALSE, reply) /\ pdActive' = active
  BY <1>1 DEF Replies
<1>3. /\ r.seq = NextSeq(Base(Head(toPd))) /\ r.code = reply
      /\ r.sec = IF active THEN "mac" ELSE "plain"
      /\ r.mac = IF active THEN Mac(s, s.c, reply) ELSE NoMac
  BY <1>1 DEF ReplyTo, Frame
<1>4. /\ pds'.id = pds.id
      /\ active => pds'.r = Mac(s, s.c, reply)
  BY <1>2 DEF Building
<1>5. LastBuilt(r)'
  BY <1>3, <1>4 DEF LastBuilt
<1>6. cpActive /\ cmd.code = "POLL" /\ ~hurt => GoodReply(r) /\ pdActive' /\ code = "POLL"
  <2> SUFFICES ASSUME cpActive, cmd.code = "POLL", ~hurt
               PROVE  GoodReply(r) /\ pdActive' /\ code = "POLL"
    OBVIOUS
  <2>1. active /\ s.c = cps.c /\ reply = "ACK" /\ code = "POLL" /\ s.id = cps.id
    BY PollFacts
  <2>2. txSeq = r.seq
    <3>1. SameSession /\ ~Restarts(Head(toPd))
      BY <2>1 DEF SInv
    <3> QED
      BY <1>3, <3>1, SequenceFits
  <2>3. r.mac = Mac(cps, cps.c, "ACK")
    BY <1>3, <2>1 DEF Mac
  <2> QED
    BY <1>2, <1>3, <2>1, <2>2, <2>3 DEF GoodReply
<1> QED
  BY <1>2, <1>3, <1>4, <1>5, <1>6, PdAnswered

LEMMA PdStepInSession == IInv /\ SInv /\ PdRefresh => SInv'
<1> SUFFICES ASSUME IInv, SInv, PdRefresh PROVE SInv'
  OBVIOUS
<1> DEFINE f == Head(toPd)
<1>0. toPd # <<>> /\ UNCHANGED <<cpLink, cpSc>> /\ phy = "REPLY_WAIT" /\ toCp = <<>>
  BY CommandFacts DEF PdRefresh, PdRepeat, PdRefusesSequence, PdRefusesSecurity,
     PdBadMac, PdAnswers, PdKeyset, PdChallenge, PdScrypt
<1>1. CASE PdRepeat
  <2>1. /\ CacheHit(f) /\ toPd' = <<>> /\ toCp' = <<cache.reply>>
        /\ UNCHANGED <<pdLink, pdSc, trouble, hurt>>
    BY <1>1 DEF PdRepeat
  <2>2. /\ cache # NoCache /\ pdSeq = txSeq /\ Head(toCp') = cache.reply
    BY <1>0, <2>1, CommandFacts DEF CacheHit, Repeats
  <2>3. UNCHANGED <<state, phy, cpSeq, txSeq, cmd, cpActive, cps, pdActive, pds, cache,
                    pdSeq>>
    BY <1>0, <2>1 DEF cpLink, cpSc, pdLink, pdSc
  <2>4. CpChain'
    BY <1>0, <2>1, CpStandsStill DEF SInv, CpChain
  <2>5. Current'
    BY <2>1, <2>2, <2>3 DEF SInv, Current, LastBuilt, RMacI
  <2>6. Together'
    BY <2>3 DEF SInv, Together, SameSession
  <2>7. Unhurt'
    <3> SUFFICES ASSUME ~hurt PROVE Unhurt'
      BY <2>1 DEF Unhurt
    <3>1. state = "SC_SCRYPT" => pds.id = cps.id
      BY DEF SInv, Unhurt
    <3>2. CASE cpActive /\ cmd.code = "POLL"
      <4>1. pdActive /\ pds.id = cps.id /\ GoodReply(cache.reply) /\ cache.code = "POLL"
        <5>1. ~Genuine(f)
          BY <2>1 DEF Genuine, Fresh
        <5> QED
          BY <1>0, <2>1, <3>2, <5>1, PollFacts DEF CacheHit
      <4>2. GoodReply(cache.reply)'
        BY <2>3, <4>1 DEF GoodReply, Mac
      <4> QED
        BY <2>2, <2>3, <3>1, <4>1, <4>2 DEF Unhurt, Answering, GoodReply
    <3>3. CASE ~(cpActive /\ cmd.code = "POLL")
      BY <1>0, <2>3, <3>1, <3>3 DEF Unhurt
    <3> QED
      BY <3>2, <3>3
  <2> QED
    BY <2>4, <2>5, <2>6, <2>7 DEF SInv
<1>2. ActiveAfterHeader(f) \in BOOLEAN /\ (ActiveAfterHeader(f) => pdActive /\ ~Restarts(f))
      /\ CacheAfterHeader(f) \in {NoCache, cache}
  BY CacheAfter DEF ActiveAfterHeader
<1>3. pds = [id |-> pds.id, c |-> pds.c, r |-> pds.r]
  BY DEF IInv, Shapes
<1>4. CASE PdRefusesSequence
  <2>1. /\ ~CacheHit(f) /\ f.seq # NextSeq(Base(f))
        /\ Replies(f, pdCmd, pds, ActiveAfterHeader(f), CacheAfterHeader(f), "NAK")
    BY <1>4 DEF PdRefusesSequence
  <2>2. ~(cpActive /\ ActiveAfterHeader(f) /\ pds.id = cps.id)
    BY <1>0, <1>2, <2>1, SequenceFits DEF SameSession
  <2>3. ~(cpActive /\ cmd.code = "POLL" /\ ~hurt)
    BY <1>0, <2>1, PollFacts DEF Genuine, Fresh
  <2> QED
    BY <1>0, <1>2, <1>3, <2>1, <2>2, <2>3, RepliesInSession
<1>5. CASE PdRefusesSecurity
  <2>1. /\ Fresh(f) /\ Unsuitable(f)
        /\ Replies(f, pdCmd, pds, ActiveAfterHeader(f), CacheAfterHeader(f), "NAK")
    BY <1>5 DEF PdRefusesSecurity
  <2>2. ~(cpActive /\ ActiveAfterHeader(f) /\ pds.id = cps.id)
    BY <1>0, <2>1, CommandInSession DEF Unsuitable
  <2>3. ~(cpActive /\ cmd.code = "POLL" /\ ~hurt)
    BY <1>0, <2>1, PollFacts DEF Genuine, Fresh
  <2> QED
    BY <1>0, <1>2, <1>3, <2>1, <2>2, <2>3, RepliesInSession
<1>6. \A x : x = Checked(f) => x = [id |-> pds.id, c |-> x.c, r |-> x.r]
  BY <1>3 DEF Checked
<1>7. CASE PdBadMac
  <2>1. /\ Fresh(f) /\ ~Genuine(f)
        /\ Replies(f, pdCmd, Checked(f), FALSE, NoCache, "NAK")
    BY <1>7 DEF PdBadMac, AfterBadMac
  <2>2. ~(cpActive /\ cmd.code = "POLL" /\ ~hurt)
    BY <1>0, <2>1, PollFacts DEF Fresh
  <2>3. PICK x, code, reply : x = Checked(f) /\ code = pdCmd /\ reply = "NAK"
    OBVIOUS
  <2>4. PICK active, cached : active = FALSE /\ cached = NoCache
    OBVIOUS
  <2>5. /\ active \in BOOLEAN /\ cached \in {NoCache, cache}
        /\ Replies(f, code, x, active, cached, reply)
        /\ reply \notin {"RMAC_I", "CCRYPT"}
    BY <2>1, <2>3, <2>4
  <2>6. x = [id |-> pds.id, c |-> x.c, r |-> x.r]
    BY <1>6, <2>3
  <2> QED
    BY <1>0, <2>2, <2>4, <2>5, <2>6, RepliesInSession
<1>8. CASE PdAnswers
  <2>1. /\ Genuine(f) /\ f.code \in DOMAIN Answer
        /\ Replies(f, f.code, Checked(f), ActiveAfterHeader(f),
                   CacheAfterHeader(f), Answer[f.code])
    BY <1>8 DEF PdAnswers
  <2>2. /\ f.code \in {"ID", "CAP", "POLL"} /\ Answer[f.code] \notin {"RMAC_I", "CCRYPT"}
        /\ f.code = "POLL" => Answer[f.code] = "ACK"
    BY <2>1 DEF Answer
  <2>3. PICK x, reply, code : x = Checked(f) /\ reply = Answer[f.code] /\ code = f.code
    OBVIOUS
  <2>4. cpActive /\ ActiveAfterHeader(f) /\ pds.id = cps.id =>
           /\ Mac(x, x.c, reply).n = (cps.r.n + 2) % Wrap
           /\ SameSession /\ ~Restarts(f)
    BY <1>0, <1>2, <2>1, <2>3, OneAhead DEF SameSession
  <2>5. cpActive /\ cmd.code = "POLL" /\ ~hurt =>
           ActiveAfterHeader(f) /\ x.c = cps.c /\ reply = "ACK" /\ code = "POLL"
    BY <1>0, <2>1, <2>2, <2>3, PollFacts DEF Genuine, Fresh
  <2> QED
    BY <1>0, <1>2, <1>6, <2>1, <2>2, <2>3, <2>4, <2>5, RepliesInSession
<1>9. CASE PdKeyset
  <2> PICK s, r : s = Checked(f) /\ r = ReplyTo(f, s, TRUE, FALSE, "ACK", NoId)
    OBVIOUS
  <2>1. /\ Genuine(f) /\ f.code = "KEYSET" /\ pds' = Building(s, TRUE, FALSE, "ACK")
        /\ \/ /\ toPd' = <<>> /\ toCp' = <<r>> /\ pdSeq' = NextSeq(Base(f))
              /\ cache' = NoCache /\ pdActive' = FALSE
              /\ UNCHANGED <<trouble, hurt>>
           \/ /\ Unsent(f, "KEYSET", r, CacheAfterHeader(f))
              /\ UNCHANGED pdActive
    BY <1>9 DEF PdKeyset
  <2>2. /\ r.seq = NextSeq(Base(f)) /\ r.code = "ACK" /\ r.sec = "mac"
        /\ r.mac = Mac(s, s.c, "ACK")
    BY DEF ReplyTo, Frame
  <2>3. pds'.id = pds.id /\ pds'.r = Mac(s, s.c, "ACK")
    BY <1>6, <2>1 DEF Building
  <2>4. LastBuilt(r)'
    BY <2>2, <2>3 DEF LastBuilt
  <2>5. cmd.code = "KEYSET" /\ f.seq = txSeq /\ NextSeq(Base(f)) = txSeq
    BY <1>0, <2>1, CommandFacts DEF Genuine, Fresh
  <2>6. CASE Unsent(f, "KEYSET", r, CacheAfterHeader(f)) /\ UNCHANGED pdActive
    <3>1. cpActive /\ pdActive' /\ pds'.id = cps.id =>
             pds'.r.n = (cps.r.n + 2) % Wrap /\ SameSession /\ ~Restarts(f)
      <4> HAVE cpActive /\ pdActive' /\ pds'.id = cps.id
      <4>1. SameSession
        BY <2>3, <2>6 DEF SameSession
      <4>2. ~Restarts(f)
        BY <1>0, <2>5 DEF Restarts, SInv, CpChain
      <4> QED
        BY <1>0, <2>1, <2>3, <4>1, <4>2, OneAhead
    <3> QED
      BY <1>0, <1>2, <2>2, <2>3, <2>4, <2>5, <2>6, <3>1, PdAnswered
  <2>7. CASE /\ toPd' = <<>> /\ toCp' = <<r>> /\ pdSeq' = NextSeq(Base(f))
             /\ cache' = NoCache /\ pdActive' = FALSE
             /\ UNCHANGED <<trouble, hurt>>
    <3>1. CpChain'
      BY <1>0, <2>7, CpStandsStill DEF SInv, CpChain
    <3>2. Current'
      <4>1. Head(toCp') = r /\ pdSeq' = txSeq
        BY <2>5, <2>7
      <4>2. txSeq' = txSeq
        BY <1>0 DEF cpLink
      <4> QED
        BY <2>4, <2>7, <4>1, <4>2 DEF Current
    <3>3. Together'
      BY <2>7 DEF Together, SameSession
    <3>4. Unhurt'
      BY <1>0, <2>3, <2>5, <2>7 DEF SInv, Unhurt, cpLink, cpSc
    <3> QED
      BY <3>1, <3>2, <3>3, <3>4 DEF SInv
  <2> QED
    BY <2>1, <2>6, <2>7
<1>10. CASE PdChallenge
  <2> PICK id, r : /\ id = [key |-> SessionKey(f), cpRnd |-> f.arg.cpRnd,
                            pdRnd |-> Random]
                   /\ r = ReplyTo(f, NoSession, FALSE, TRUE, "CCRYPT", id)
    OBVIOUS
  <2>1. /\ pds' = [NoSession EXCEPT !.id = id] /\ pdActive' = FALSE /\ f.code = "CHLNG"
        /\ Sent(f, "CHLNG", r) \/ Unsent(f, "CHLNG", r, NoCache)
    BY <1>10 DEF PdChallenge
  <2>2. /\ r.seq = NextSeq(Base(f)) /\ r.code = "CCRYPT" /\ r.sec = "handshake"
        /\ r.arg = id
    BY DEF ReplyTo, Frame
  <2>3. LastBuilt(r)'
    BY <2>1, <2>2 DEF LastBuilt, NoSession
  <2>4. cmd.code = "CHLNG"
    BY <1>0, <2>1, CommandFacts
  <2> QED
    BY <1>0, <2>1, <2>2, <2>3, <2>4, PdAnswered
<1>11. CASE PdScrypt
  <2>1. f.code = "SCRYPT" /\ cmd.code = "SCRYPT" /\ ~cpActive
    BY <1>0, <1>11, CommandFacts, CommandInSession DEF PdScrypt
  <2> PICK r : r = ReplyTo(f, [pds EXCEPT !.r = RMacI(pds)], FALSE, TRUE, "RMAC_I", pds.id)
    OBVIOUS
  <2>2. CASE /\ pds' = [pds EXCEPT !.r = RMacI(pds)] /\ pdActive' = TRUE
             /\ Sent(f, "SCRYPT", r) \/ Unsent(f, "SCRYPT", r, CacheAfterHeader(f))
    <3>1. /\ r.seq = NextSeq(Base(f)) /\ r.code = "RMAC_I" /\ r.sec = "handshake"
          /\ r.arg = pds.id
      BY DEF ReplyTo, Frame
    <3>2. pds'.id = pds.id /\ pds'.r = RMacI(pds) /\ RMacI(pds)' = RMacI(pds)
      BY <1>3, <2>2 DEF RMacI
    <3>3. LastBuilt(r)'
      BY <2>2, <3>1, <3>2 DEF LastBuilt
    <3> QED
      BY <1>0, <1>2, <2>1, <2>2, <3>1, <3>2, <3>3, PdAnswered
  <2>3. CASE Replies(f, "SCRYPT", pds, ActiveAfterHeader(f),
                     CacheAfterHeader(f), "NAK")
    BY <1>0, <1>2, <1>3, <2>1, <2>3, RepliesInSession
  <2> QED
    BY <1>11, <2>2, <2>3 DEF PdScrypt
<1> QED
  BY <1>1, <1>4, <1>5, <1>7, <1>8, <1>9, <1>10, <1>11 DEF PdRefresh

-----------------------------------------------------------------------------
(* The CP's steps, in a session *)

LEMMA TransmitMac ==
    ASSUME CpChain, NEW c, NEW seq, Transmit(c, seq)
    PROVE  /\ cps'.id = cps.id /\ cps'.r = cps.r /\ cps'.c.n \in Places
           /\ cps' = [id |-> cps'.id, c |-> cps'.c, r |-> cps'.r]
           /\ cpActive => /\ cps'.c = Mac(cps, cps.r, c.code)
                          /\ Head(toPd').sec = "mac" /\ Head(toPd').mac = cps'.c
           /\ ~cpActive => cps' = cps
<1>1. CASE cpActive
  <2>1. PICK mac : mac = Mac(cps, cps.r, c.code)
    OBVIOUS
  <2>2. /\ cps' = [cps EXCEPT !.c = mac]
        /\ toPd' = <<Frame(c.code, seq, "mac", FALSE, Argument(c), mac)>>
    BY <1>1, <2>1 DEF Transmit
  <2>3. mac.n \in Places
    BY <2>1, PlaceFacts DEF Mac, CpChain
  <2>4. Head(toPd').sec = "mac" /\ Head(toPd').mac = mac
    BY <2>2 DEF Frame
  <2> QED
    BY <1>1, <2>1, <2>2, <2>3, <2>4 DEF CpChain
<1>2. CASE ~cpActive
  BY <1>2 DEF Transmit, CpChain
<1> QED
  BY <1>1, <1>2

\* A command goes out: the reply before it, if any, was taken or is lost.
LEMMA SendInSession ==
    ASSUME SInv, NEW c, NEW seq, Transmit(c, seq), toCp = <<>>,
           phy' = "REPLY_WAIT", cmd' = c, txSeq' = seq,
           UNCHANGED <<state, retry, cpActive, pdLink, pdSc, toCp, trouble, hurt>>,
           c.code = "CHLNG" => state = "SC_CHLNG",
           cpActive => cpSeq' \in 0..3 /\ seq \in 1..3 /\ c.code \in {"POLL", "KEYSET"},
           SameSession => /\ pdSeq = seq \/ NextSeq(pdSeq) = seq
                          /\ pds.r = cps.r \/ pds.r.n = (cps.r.n + 2) % Wrap,
           ~hurt /\ cpActive /\ c.code = "POLL" =>
              /\ pdActive /\ pds.id = cps.id
              /\ Answering'
    PROVE  SInv'
<1>1. /\ cps'.id = cps.id /\ cps'.r = cps.r /\ cps'.c.n \in Places
      /\ cps' = [id |-> cps'.id, c |-> cps'.c, r |-> cps'.r]
      /\ cpActive => /\ cps'.c = Mac(cps, cps.r, c.code)
                     /\ Head(toPd').sec = "mac" /\ Head(toPd').mac = cps'.c
  BY TransmitMac DEF SInv
<1>2. UNCHANGED <<pdSeq, cache, pdActive, pds>>
  BY DEF pdLink, pdSc
<1>3. Current'
  BY <1>2 DEF SInv, Current, LastBuilt, RMacI
<1>4. CpChain'
  <2>1. cpActive => cps'.c = Mac(cps', cps'.r, c.code)
    BY <1>1 DEF Mac
  <2> QED
    BY <1>1, <2>1 DEF SInv, CpChain
<1>5. Together'
  BY <1>1, <1>2 DEF Together, SameSession
<1>6. Unhurt'
  BY <1>1, <1>2 DEF SInv, Unhurt
<1> QED
  BY <1>3, <1>4, <1>5, <1>6 DEF SInv

LEMMA CpSendInSession == IInv /\ SInv /\ CpSend => SInv'
<1> SUFFICES ASSUME IInv, SInv, CpSend PROVE SInv'
  OBVIOUS
<1>1. PICK c \in Commands :
         cmd' = c /\ txSeq' = NextSeq(cpSeq) /\ Transmit(c, NextSeq(cpSeq))
  BY DEF CpSend
<1>2. /\ phy = "IDLE" /\ phy' = "REPLY_WAIT" /\ cpSeq' = cpSeq
      /\ UNCHANGED <<state, retry, cpActive, pdLink, pdSc, toCp, trouble, hurt>>
  BY DEF CpSend
<1>3. toCp = <<>>
  BY <1>2 DEF IInv, OneFrame
<1>4. /\ c.code = "CHLNG" => state = "SC_CHLNG"
      /\ state \in {"SET_SCBK", "ONLINE"} => c.code \in {"POLL", "KEYSET"}
  BY <1>1 DEF Commands, NoCmd
<1>5. cpActive => cpSeq \in 0..3 /\ c.code \in {"POLL", "KEYSET"}
                  /\ NextSeq(cpSeq) \in 1..3
  BY <1>4, RepeatFacts DEF SInv, CpChain
<1>6. SameSession => pdSeq = cpSeq /\ pds.r = cps.r
  BY <1>2 DEF SInv, Together
<1>7. ~hurt /\ cpActive => pdActive /\ pds.id = cps.id
  BY <1>2 DEF SInv, Unhurt
<1>8. ~hurt /\ cpActive => Answering'
  <2> HAVE ~hurt /\ cpActive
  <2>1. NextSeq(pdSeq) = NextSeq(cpSeq) /\ pds.r = cps.r
    BY <1>6, <1>7 DEF SameSession
  <2>2. cps'.r = cps.r
    BY <1>1, TransmitMac DEF SInv
  <2>3. pds' = pds /\ pdSeq' = pdSeq
    BY <1>2 DEF pdLink, pdSc
  <2> QED
    BY <1>1, <1>2, <1>3, <2>1, <2>2, <2>3 DEF Answering
<1>9. PICK seq : seq = NextSeq(cpSeq)
  OBVIOUS
<1> QED
  BY <1>1, <1>2, <1>3, <1>4, <1>5, <1>6, <1>7, <1>8, <1>9, SendInSession

\* "Rebuilding under SC yields the same bytes" (osdp_cp.c, cp_phy_state_update()).
LEMMA CpRetryInSession == IInv /\ SInv /\ CpRetry => SInv'
<1> SUFFICES ASSUME IInv, SInv, CpRetry PROVE SInv'
  OBVIOUS
<1>1. /\ phy = "WAIT" /\ cpSeq' = txSeq - 1 /\ NextSeq(txSeq - 1) = txSeq
      /\ txSeq' = txSeq /\ Transmit(cmd, txSeq) /\ phy' = "REPLY_WAIT" /\ cmd' = cmd
      /\ UNCHANGED <<state, retry, cpActive, pdLink, pdSc, toCp, trouble, hurt>>
      /\ toCp = <<>>
  BY RepeatFacts DEF CpRetry, IInv, Numbers, OneFrame
<1>2. cmd.code = "CHLNG" => state = "SC_CHLNG"
  BY <1>1 DEF SInv, CpChain
<1>3. cpActive => /\ cpSeq' \in 0..3 /\ txSeq \in 1..3
                  /\ cmd.code \in {"POLL", "KEYSET"}
                  /\ cps.c = Mac(cps, cps.r, cmd.code)
  BY <1>1 DEF SInv, CpChain
<1>4. SameSession => /\ pdSeq = txSeq \/ NextSeq(pdSeq) = txSeq
                     /\ pds.r = cps.r \/ pds.r.n = (cps.r.n + 2) % Wrap
  BY <1>1 DEF SInv, Together
<1>5. ~hurt /\ cpActive /\ cmd.code = "POLL" =>
         pdActive /\ pds.id = cps.id /\ Answering'
  <2> HAVE ~hurt /\ cpActive /\ cmd.code = "POLL"
  <2>1. pdActive /\ pds.id = cps.id /\ Answering
    BY <1>1 DEF SInv, Unhurt
  <2>2. cps'.id = cps.id /\ cps'.r = cps.r /\ cps'.c = cps.c
    BY <1>1, <1>3, TransmitMac DEF SInv
  <2>3. UNCHANGED <<pds, pdSeq, cache, txSeq, toCp>>
    BY <1>1 DEF pdLink, pdSc
  <2>4. GoodReply(cache.reply) => GoodReply(cache.reply)'
    BY <2>2, <2>3 DEF GoodReply, Mac
  <2> QED
    BY <2>1, <2>2, <2>3, <2>4 DEF Answering
<1> QED
  BY <1>1, <1>2, <1>3, <1>4, <1>5, SendInSession

\* Leaving an exchange: whoever stays in the session is where the PD is.
LEMMA LeaveInSession ==
    ASSUME SInv, NEW n, NEW seq, NEW spent \in 0..MaxRetries, NEW s, NEW active,
           Enter(n, seq, spent, s, active), toPd = <<>>,
           UNCHANGED <<pdLink, pdSc, toPd>>, trouble' \in Nat,
           s = [id |-> s.id, c |-> s.c, r |-> s.r],
           s.c.n \in Places, s.r.n \in Places,
           active /\ n # "OFFLINE" =>
              /\ n \in {"SET_SCBK", "ONLINE"} /\ seq \in 0..3
              /\ pdActive /\ pds.id = s.id => pds.r = s.r /\ pdSeq = seq
              /\ ~hurt => pdActive /\ pds.id = s.id,
           n = "SC_SCRYPT" /\ ~hurt => pds.id = s.id
    PROVE  SInv'
<1>1. /\ state' = n /\ phy' = "IDLE" /\ toCp' = <<>> /\ toPd' = <<>>
      /\ cpActive' <=> active /\ n # "OFFLINE"
      /\ UNCHANGED <<pdSeq, cache, pdActive, pds>>
  BY DEF Enter, pdLink, pdSc
<1>2. Current'
  BY <1>1 DEF SInv, Current, LastBuilt, RMacI
<1>3. CASE n = "SC_CHLNG" /\ state # n
  <2>1. /\ retry' = 0 /\ cps' = NewSession /\ ~cpActive'
    BY <1>1, <1>3 DEF Enter
  <2>2. /\ cps' = [id |-> cps'.id, c |-> cps'.c, r |-> cps'.r]
        /\ cps'.c.n = 0 /\ cps'.r.n = 0
    BY <2>1 DEF NewSession, NoSession, NoMac
  <2>3. 0 \in Places /\ 0 \in 0..MaxRetries
    BY SecureChannelAssumption DEF Places
  <2>4. CpChain'
    BY <1>1, <2>1, <2>2, <2>3 DEF CpChain
  <2>5. Together' /\ Unhurt'
    BY <1>1, <1>3, <2>1 DEF Together, SameSession, Unhurt
  <2> QED
    BY <1>2, <2>4, <2>5 DEF SInv
<1>4. CASE ~(n = "SC_CHLNG" /\ state # n)
  <2>1. cpSeq' = seq /\ retry' = spent /\ cps' = s /\ hurt' = hurt
    BY <1>4 DEF Enter
  <2>2. CpChain'
    BY <1>1, <2>1 DEF CpChain
  <2>3. Together'
    BY <1>1, <2>1 DEF Together, SameSession
  <2>4. Unhurt'
    BY <1>1, <2>1 DEF Unhurt
  <2> QED
    BY <1>2, <2>2, <2>3, <2>4 DEF SInv
<1> QED
  BY <1>3, <1>4

\* A failure ends the session, if there is one.
LEMMA FailInSession ==
    ASSUME SInv, NEW seq, NEW spent \in 0..MaxRetries, NEW s, NEW active,
           Fails(seq, spent, s, active), active => cpActive, toPd = <<>>,
           UNCHANGED <<pdLink, pdSc, toPd>>, trouble' \in Nat,
           s = [id |-> s.id, c |-> s.c, r |-> s.r],
           s.c.n \in Places, s.r.n \in Places
    PROVE  SInv' /\ ~cpActive'
<1>1. Enter(ErrState, seq, spent, s, active)
  BY DEF Fails
<1>2. active => state \in {"SET_SCBK", "ONLINE"}
  BY DEF SInv, CpChain
<1>3. PICK n : n = ErrState
  OBVIOUS
<1>4. active => n = "OFFLINE"
  BY <1>2, <1>3 DEF ErrState
<1>5. n # "SC_SCRYPT"
  BY <1>3 DEF ErrState
<1>6. Enter(n, seq, spent, s, active)
  BY <1>1, <1>3
<1>7. ~cpActive'
  BY <1>4, <1>6 DEF Enter
<1> QED
  BY <1>4, <1>5, <1>6, <1>7, LeaveInSession

LEMMA HearingShape ==
    ASSUME SInv, NEW r
    PROVE  /\ Hearing(r) = [id |-> Hearing(r).id, c |-> Hearing(r).c,
                            r |-> Hearing(r).r]
           /\ Hearing(r).c.n \in Places /\ Hearing(r).r.n \in Places
<1>1. /\ cps = [id |-> cps.id, c |-> cps.c, r |-> cps.r]
      /\ cps.c.n \in Places /\ cps.r.n \in Places /\ 0 \in Places
  BY SecureChannelAssumption DEF SInv, CpChain, Places
<1>2. CASE r.sec = "mac"
  <2>1. Hearing(r) = [cps EXCEPT !.r = Mac(cps, cps.c, r.code)]
    BY <1>2 DEF Hearing
  <2>2. Mac(cps, cps.c, r.code).n \in Places
    BY <1>1, PlaceFacts DEF Mac
  <2> QED
    BY <1>1, <2>1, <2>2
<1>3. CASE r.sec # "mac" /\ r.code = "CCRYPT"
  <2>1. Hearing(r) = [cps EXCEPT !.id.key = KeyInUse, !.id.pdRnd = r.arg.pdRnd]
    BY <1>3 DEF Hearing
  <2> QED
    BY <1>1, <2>1
<1>4. CASE r.sec # "mac" /\ r.code = "RMAC_I"
  <2>1. Hearing(r) = [cps EXCEPT !.r = [NoMac EXCEPT !.id = r.arg]]
    BY <1>4 DEF Hearing
  <2>2. [NoMac EXCEPT !.id = r.arg].n = 0
    BY DEF NoMac
  <2> QED
    BY <1>1, <2>1, <2>2
<1>5. CASE r.sec # "mac" /\ r.code \notin {"CCRYPT", "RMAC_I"}
  <2>1. Hearing(r) = cps
    BY <1>5 DEF Hearing
  <2> QED
    BY <1>1, <2>1
<1> QED
  BY <1>2, <1>3, <1>4, <1>5

\* The reply that opens the session at the CP, and the one that continues it.
LEMMA OpeningFacts ==
    ASSUME IInv, SInv, Heard, InSequence(Head(toCp)), ~Refused(Head(toCp)),
           state = "SC_SCRYPT", Head(toCp).code = "RMAC_I", NEW s,
           s = Hearing(Head(toCp))
    PROVE  /\ pdActive => pds.r = s.r /\ pdSeq = NextSeq(cpSeq)
           /\ ~hurt => pdActive /\ pds.id = s.id
<1> DEFINE r == Head(toCp)
<1>1. toCp # <<>> /\ r.seq = txSeq /\ txSeq = NextSeq(cpSeq)
  BY DEF Heard, InSequence, IInv, Asking
<1>2. ~cpActive /\ r.sec # "mac"
  BY DEF Refused, SInv, CpChain
<1>3. s.r = [NoMac EXCEPT !.id = r.arg] /\ s.id = cps.id
  BY <1>2 DEF Hearing, SInv, CpChain
<1>4. pdActive \/ ~hurt =>
         r.arg = pds.id /\ pds.r = RMacI(pds) /\ pdActive /\ pdSeq = NextSeq(cpSeq)
  BY <1>1 DEF SInv, Current, LastBuilt
<1>5. [NoMac EXCEPT !.id = pds.id] = RMacI(pds)
  BY DEF NoMac, RMacI
<1>6. ~hurt => pds.id = cps.id
  BY DEF SInv, Unhurt
<1> QED
  BY <1>3, <1>4, <1>5, <1>6

LEMMA ContinuingFacts ==
    ASSUME IInv, SInv, Heard, InSequence(Head(toCp)), ~Refused(Head(toCp)),
           MacFits(Head(toCp)), cpActive, cmd.code # "KEYSET", NEW s,
           s = Hearing(Head(toCp))
    PROVE  /\ cpSeq \in 0..3 /\ NextSeq(cpSeq) \in 0..3
           /\ pdActive /\ pds.id = s.id => pds.r = s.r /\ pdSeq = NextSeq(cpSeq)
           /\ ~hurt => pdActive /\ pds.id = s.id
<1> DEFINE r == Head(toCp)
<1>1. toCp # <<>> /\ r.seq = txSeq /\ txSeq = NextSeq(cpSeq) /\ phy # "IDLE"
  BY DEF Heard, InSequence, IInv, Asking
<1>2. cpSeq \in 0..3 /\ NextSeq(cpSeq) \in 0..3
  BY RepeatFacts DEF SInv, CpChain
<1>3. r.sec = "mac"
  BY DEF Refused
<1>4. s.id = cps.id /\ r.mac = s.r
  BY <1>3 DEF MacFits, Hearing, SInv, CpChain
<1>5. pdActive => r.mac = pds.r /\ pdSeq = NextSeq(cpSeq)
  BY <1>1, <1>3 DEF SInv, Current, LastBuilt
<1>6. ~hurt => pdActive /\ pds.id = cps.id
  BY <1>1 DEF SInv, Unhurt, CpChain
<1> QED
  BY <1>2, <1>4, <1>5, <1>6

LEMMA SucceedInSession ==
    ASSUME IInv, SInv, Heard, InSequence(Head(toCp)), ~Refused(Head(toCp)),
           MacFits(Head(toCp)), NEW s, s = Hearing(Head(toCp)),
           ~(Head(toCp).code = "CCRYPT" /\ Head(toCp).arg # s.id),
           Head(toCp).code = Expected[state], Succeeds(NextSeq(cpSeq), s),
           UNCHANGED <<pdLink, pdSc, toPd, trouble>>
    PROVE  SInv'
<1> DEFINE r == Head(toCp)
<1>1. PICK n, a, seq :
         /\ n = OkState
         /\ a = (state = "SC_SCRYPT" \/ (cpActive /\ cmd.code # "KEYSET"))
         /\ seq = NextSeq(cpSeq)
  OBVIOUS
<1>2. Enter(n, seq, 0, s, a)
  BY <1>1 DEF Succeeds
<1>3. toPd = <<>> /\ toCp # <<>> /\ seq \in 0..3
  BY <1>1, NextSeqFacts DEF Heard, IInv, OneFrame, Numbers
<1>4. a => /\ n \in {"SET_SCBK", "ONLINE"}
           /\ pdActive /\ pds.id = s.id => pds.r = s.r /\ pdSeq = seq
           /\ ~hurt => pdActive /\ pds.id = s.id
  <2> HAVE a
  <2>1. CASE state = "SC_SCRYPT"
    <3>1. r.code = "RMAC_I"
      BY <2>1 DEF Expected
    <3>2. n \in {"SET_SCBK", "ONLINE"}
      BY <1>1, <2>1 DEF OkState
    <3> QED
      BY <1>1, <2>1, <3>1, <3>2, OpeningFacts
  <2>2. CASE cpActive /\ cmd.code # "KEYSET"
    <3>1. state \in {"SET_SCBK", "ONLINE"}
      BY <2>2 DEF SInv, CpChain
    <3>2. n = "ONLINE"
      BY <1>1, <2>2, <3>1 DEF OkState
    <3> QED
      BY <1>1, <2>2, <3>2, ContinuingFacts
  <2> QED
    BY <1>1, <2>1, <2>2
<1>5. n = "SC_SCRYPT" /\ ~hurt => pds.id = s.id
  <2> HAVE n = "SC_SCRYPT" /\ ~hurt
  <2>1. state = "SC_CHLNG"
    BY <1>1 DEF OkState
  <2>2. r.code = "CCRYPT"
    BY <2>1 DEF Expected
  <2> QED
    BY <1>3, <2>2 DEF SInv, Current, LastBuilt
<1>6. /\ s = [id |-> s.id, c |-> s.c, r |-> s.r]
      /\ s.c.n \in Places /\ s.r.n \in Places
  BY HearingShape
<1>7. trouble' \in Nat /\ 0 \in 0..MaxRetries
  BY SecureChannelAssumption DEF SInv, CpChain
<1>8. PICK spent : spent = 0
  OBVIOUS
<1> QED
  BY <1>2, <1>3, <1>4, <1>5, <1>6, <1>7, <1>8, LeaveInSession

LEMMA CpHearsInSession == IInv /\ SInv /\ CpHears => SInv'
<1> SUFFICES ASSUME IInv, SInv, CpHears PROVE SInv'
  OBVIOUS
<1> DEFINE r == Head(toCp)
<1> PICK s : s = Hearing(r)
  OBVIOUS
<1>1. /\ Heard /\ InSequence(r) /\ ~Refused(r)
      /\ UNCHANGED <<pdLink, pdSc, toPd, trouble>>
  BY DEF CpHears
<1>2. toPd = <<>> /\ trouble' \in Nat
  BY <1>1 DEF Heard, IInv, OneFrame, SInv, CpChain
<1>3. retry \in 0..MaxRetries /\ 0 \in 0..MaxRetries
  BY SecureChannelAssumption DEF SInv, CpChain
<1>4. /\ s = [id |-> s.id, c |-> s.c, r |-> s.r]
      /\ s.c.n \in Places /\ s.r.n \in Places
  BY HearingShape
<1>5. CASE ~MacFits(r)
  <2>1. Fails(cpSeq, retry, s, FALSE)
    BY <1>5 DEF CpHears
  <2>2. PICK a : a = FALSE
    OBVIOUS
  <2> QED
    BY <1>1, <1>2, <1>3, <1>4, <2>1, <2>2, FailInSession
<1>6. CASE MacFits(r) /\ r.code = "CCRYPT" /\ r.arg # s.id
  <2>1. Fails(NextSeq(cpSeq), retry, s, cpActive)
    BY <1>6 DEF CpHears
  <2> QED
    BY <1>1, <1>2, <1>3, <1>4, <2>1, FailInSession
<1>7. CASE /\ MacFits(r) /\ ~(r.code = "CCRYPT" /\ r.arg # s.id)
           /\ r.code = Expected[state]
  <2>1. Succeeds(NextSeq(cpSeq), s)
    BY <1>7 DEF CpHears
  <2> QED
    BY <1>1, <1>7, <2>1, SucceedInSession
<1>8. CASE /\ MacFits(r) /\ ~(r.code = "CCRYPT" /\ r.arg # s.id)
           /\ r.code # Expected[state]
  <2>1. Fails(NextSeq(cpSeq), 0, s, cpActive)
    BY <1>8 DEF CpHears
  <2>2. PICK spent : spent = 0
    OBVIOUS
  <2> QED
    BY <1>1, <1>2, <1>3, <1>4, <2>1, <2>2, FailInSession
<1> QED
  BY <1>5, <1>6, <1>7, <1>8

LEMMA CpStepInSession ==
    IInv /\ SInv /\ (CpRefresh \/ CpScRetry \/ CpNoise) => SInv'
<1> SUFFICES ASSUME IInv, SInv, CpRefresh \/ CpScRetry \/ CpNoise PROVE SInv'
  OBVIOUS
<1>1. /\ cps = [id |-> cps.id, c |-> cps.c, r |-> cps.r]
      /\ cps.c.n \in Places /\ cps.r.n \in Places
      /\ retry \in 0..MaxRetries /\ 0 \in 0..MaxRetries /\ trouble \in Nat
  BY SecureChannelAssumption DEF SInv, CpChain
<1>2. toCp # <<>> => toPd = <<>>
  BY DEF IInv, OneFrame
<1>3. CASE CpTimeout
  <2>1. CASE retry < MaxRetries
    <3>1. /\ phy = "REPLY_WAIT" /\ phy' = "WAIT" /\ retry' = retry + 1
          /\ UNCHANGED <<state, cpSeq, txSeq, cmd, cpSc, toCp, hurt, pdLink, pdSc, toPd,
                         trouble>>
      BY <1>3, <2>1 DEF CpTimeout
    <3>2. UNCHANGED <<cpActive, cps, pdSeq, cache, pdActive, pds>>
      BY <3>1 DEF cpSc, pdLink, pdSc
    <3>3. retry' \in 0..MaxRetries
      BY <1>1, <2>1, <3>1, SecureChannelAssumption
    <3>4. Current'
      BY <3>1, <3>2 DEF SInv, Current, LastBuilt, RMacI
    <3>5. CpChain'
      BY <3>1, <3>2, <3>3 DEF SInv, CpChain, Mac
    <3>6. Together'
      BY <3>1, <3>2 DEF SInv, Together, SameSession
    <3>7. Unhurt'
      BY <3>1, <3>2 DEF SInv, Unhurt, Answering, GoodReply, Mac
    <3> QED
      BY <3>4, <3>5, <3>6, <3>7 DEF SInv
  <2>2. CASE ~(retry < MaxRetries)
    <3>1. /\ Fails(cpSeq, retry, cps, cpActive) /\ toPd = <<>>
          /\ UNCHANGED <<pdLink, pdSc, toPd, trouble>>
      BY <1>3, <2>2 DEF CpTimeout
    <3> QED
      BY <1>1, <3>1, FailInSession
  <2> QED
    BY <2>1, <2>2
<1>4. CASE CpReconnect
  <2>1. /\ state = "OFFLINE" /\ phy = "IDLE" /\ state' = "INIT" /\ retry' = 0
        /\ UNCHANGED <<phy, cmd, cpActive, cps, pdSeq, cache, pdActive, pds, toCp, toPd,
                       hurt, trouble>>
    BY <1>4 DEF CpReconnect, cpSc, pdLink, pdSc, line, IInv, Asking
  <2>2. ~cpActive /\ toCp = <<>>
    BY <2>1 DEF SInv, CpChain, IInv, OneFrame
  <2>3. Current'
    BY <2>1, <2>2 DEF SInv, Current, LastBuilt, RMacI
  <2>4. CpChain'
    BY <1>1, <2>1, <2>2 DEF SInv, CpChain
  <2>5. Together' /\ Unhurt'
    BY <2>1, <2>2 DEF Together, SameSession, Unhurt
  <2> QED
    BY <2>3, <2>4, <2>5 DEF SInv
<1>5. CASE CpRefuses \/ CpNoise
  <2>1. /\ Fails(cpSeq, retry, cps, cpActive) /\ toCp # <<>>
        /\ UNCHANGED <<pdLink, pdSc, toPd>> /\ trouble' \in Nat
    BY <1>1, <1>5 DEF CpRefuses, CpNoise, Heard, Trouble
  <2> QED
    BY <1>1, <1>2, <2>1, FailInSession
<1>6. CASE CpSeqMismatch
  <2>1. /\ Enter("OFFLINE", cpSeq, 0, cps, cpActive) /\ toCp # <<>>
        /\ UNCHANGED <<pdLink, pdSc, toPd, trouble>>
    BY <1>6 DEF CpSeqMismatch, Heard
  <2>2. PICK n, spent : n = "OFFLINE" /\ spent = 0
    OBVIOUS
  <2> QED
    BY <1>1, <1>2, <2>1, <2>2, LeaveInSession
<1>7. CASE CpScRetry
  <2>1. /\ Enter("SC_CHLNG", cpSeq, 0, cps, FALSE) /\ phy = "IDLE"
        /\ UNCHANGED <<pdLink, pdSc, toPd, trouble>>
    BY <1>7 DEF CpScRetry
  <2>2. PICK n, spent, a : n = "SC_CHLNG" /\ spent = 0 /\ a = FALSE
    OBVIOUS
  <2>3. toPd = <<>>
    BY <2>1 DEF IInv, OneFrame
  <2> QED
    BY <1>1, <2>1, <2>2, <2>3, LeaveInSession
<1> QED
  BY <1>3, <1>4, <1>5, <1>6, <1>7, CpSendInSession, CpRetryInSession,
     CpHearsInSession DEF CpRefresh

-----------------------------------------------------------------------------
(* What goes wrong *)

LEMMA DisturbanceInSession == IInv /\ SInv /\ Disturbance => SInv'
<1> SUFFICES ASSUME IInv, SInv, Disturbance PROVE SInv'
  OBVIOUS
<1>1. trouble \in Nat /\ 0 \in Places /\ 0 \in 0..MaxRetries
  BY SecureChannelAssumption DEF SInv, CpChain, Places
<1>2. CASE CpRestart
  <2>1. /\ state' = "INIT" /\ phy' = "IDLE" /\ retry' = 0 /\ cpActive' = FALSE
        /\ cps' = NoSession /\ toCp' = <<>> /\ trouble' \in Nat
        /\ UNCHANGED <<pdLink, pdSc, toPd, hurt>>
    BY <1>1, <1>2 DEF CpRestart, Trouble
  <2>2. Current'
    BY <2>1 DEF SInv, Current, LastBuilt, RMacI, pdLink, pdSc
  <2>3. /\ cps' = [id |-> cps'.id, c |-> cps'.c, r |-> cps'.r]
        /\ cps'.c.n = 0 /\ cps'.r.n = 0
    BY <2>1 DEF NoSession, NoMac
  <2>4. CpChain'
    BY <1>1, <2>1, <2>3 DEF CpChain
  <2>5. Together' /\ Unhurt'
    BY <2>1 DEF Together, SameSession, Unhurt
  <2> QED
    BY <2>2, <2>4, <2>5 DEF SInv
<1>3. CASE PdNoise \/ PdSilence \/ PdRestart
  <2>1. /\ hurt' /\ ~pdActive' /\ cache' = NoCache /\ trouble' \in Nat
        /\ toPd' = <<>> /\ UNCHANGED <<cpLink, cpSc, toCp>>
    BY <1>1, <1>3 DEF PdNoise, PdSilence, PdRestart, Trouble
  <2>2. Current' /\ Together' /\ Unhurt'
    BY <2>1 DEF Current, Together, SameSession, Unhurt
  <2>3. CpChain'
    BY <2>1, CpStandsStill
  <2> QED
    BY <2>2, <2>3 DEF SInv
<1>4. CASE LoseCommand \/ LoseReply
  <2>1. /\ toPd' # <<>> => toPd' = toPd
        /\ toCp' # <<>> => toCp' = toCp
        /\ trouble' \in Nat /\ UNCHANGED <<cpLink, cpSc, pdLink, pdSc, hurt>>
    BY <1>1, <1>4 DEF LoseCommand, LoseReply, Trouble
  <2>2. UNCHANGED <<state, phy, cpSeq, txSeq, retry, cmd, cpActive, cps, pdSeq, cache,
                    pdActive, pds, hurt>>
    BY <2>1 DEF cpLink, cpSc, pdLink, pdSc
  <2>3. Current'
    BY <2>1, <2>2 DEF SInv, Current, LastBuilt, RMacI
  <2>4. CpChain'
    BY <2>1, <2>2 DEF SInv, CpChain, Mac
  <2>5. Together'
    BY <2>2 DEF SInv, Together, SameSession
  <2>6. Unhurt'
    BY <2>1, <2>2 DEF SInv, Unhurt, Answering, GoodReply, Mac
  <2> QED
    BY <2>3, <2>4, <2>5, <2>6 DEF SInv
<1>5. CASE CpNoise
  BY <1>5, CpStepInSession
<1> QED
  BY <1>2, <1>3, <1>4, <1>5 DEF Disturbance

-----------------------------------------------------------------------------
(* The theorems on sessions *)

LEMMA InSessionInitially == Init => SInv
<1> SUFFICES ASSUME Init PROVE SInv
  OBVIOUS
<1>1. /\ cps = [id |-> cps.id, c |-> cps.c, r |-> cps.r]
      /\ cps.c.n = 0 /\ cps.r.n = 0
  BY DEF Init, NoSession, NoMac
<1>2. 0 \in Places /\ 0 \in 0..MaxRetries
  BY SecureChannelAssumption DEF Places
<1>3. CpChain
  BY <1>1, <1>2 DEF Init, CpChain
<1>4. Current /\ Together /\ Unhurt
  BY DEF Init, Current, Together, SameSession, Unhurt
<1> QED
  BY <1>3, <1>4 DEF SInv

LEMMA StepInSession == IInv /\ SInv /\ [Next]_vars => SInv'
<1> SUFFICES ASSUME IInv, SInv, [Next]_vars PROVE SInv'
  OBVIOUS
<1>1. CASE UNCHANGED vars
  <2>1. UNCHANGED <<state, phy, cpSeq, txSeq, retry, cmd, cpActive, cps, pdSeq, cache,
                    pdActive, pds, toPd, toCp, trouble, hurt>>
    BY <1>1 DEF vars, cpLink, cpSc, pdLink, pdSc, line
  <2> QED
    BY <2>1 DEF SInv, Current, LastBuilt, RMacI, CpChain, Mac, Together, SameSession,
       Unhurt, Answering, GoodReply
<1> QED
  BY <1>1, CpStepInSession, PdStepInSession, DisturbanceInSession DEF Next

LEMMA AlwaysInSession == Spec => [](IInv /\ SInv)
<1>1. Init => IInv /\ SInv
  BY Initially, InSessionInitially
<1>2. IInv /\ SInv /\ [Next]_vars => (IInv /\ SInv)'
  BY InductiveStep, StepInSession
<1> QED
  BY <1>1, <1>2, PTL DEF Spec

\* Two ends of one session stay within one exchange of each other, however often
\* frames are lost, garbled, repeated or not sent, and whoever starts again: the
\* chain of MACs is never where the other end cannot follow.
THEOREM EndsStayInStep == Spec => []InStep
<1>1. IInv /\ SInv => InStep
  BY DEF SInv, Together, InStep
<1> QED
  BY <1>1, AlwaysInSession, PTL

\* Lost frames alone never cost the CP its session before the retries are used
\* up: what arrives is the reply to the command under way, in sequence and with
\* the MAC that continues the chain, whether it was built now or cached.
THEOREM LossIsSurvived == Spec => LossKeepsSession
<1> DEFINE Kept ==
      state = "ONLINE" /\ cpActive /\ ~cpActive' =>
          \/ cmd.code = "KEYSET"
          \/ retry = MaxRetries /\ toCp = <<>>
          \/ hurt \/ trouble' # trouble
<1>1. IInv /\ SInv /\ [Next]_vars => Kept
  <2> SUFFICES ASSUME IInv, SInv, [Next]_vars, state = "ONLINE", cpActive, ~cpActive',
                      cmd.code # "KEYSET", ~(retry = MaxRetries /\ toCp = <<>>),
                      ~hurt, trouble' = trouble
               PROVE  FALSE
    OBVIOUS
  <2>1. retry \in 0..MaxRetries /\ trouble \in Nat /\ trouble + 1 # trouble
        /\ cpActive = TRUE
    BY DEF SInv, CpChain
  <2>2. Heard => /\ InSequence(Head(toCp)) /\ ~Refused(Head(toCp))
                 /\ MacFits(Head(toCp)) /\ Head(toCp).code = "ACK"
    <3> HAVE Heard
    <3>1. phy # "IDLE" /\ toCp # <<>> /\ txSeq = NextSeq(cpSeq) /\ cmd.code = "POLL"
      BY DEF Heard, IInv, Asking, SInv, CpChain
    <3>2. GoodReply(Head(toCp))
      BY <3>1 DEF SInv, Unhurt
    <3>3. Hearing(Head(toCp)).r = Mac(cps, cps.c, "ACK")
      BY <3>2 DEF GoodReply, Hearing, SInv, CpChain
    <3> QED
      BY <2>1, <3>1, <3>2, <3>3 DEF GoodReply, InSequence, Refused, MacFits
  <2>3. CASE CpTimeout
    <3>1. retry < MaxRetries
      BY <2>1, <2>3, SecureChannelAssumption DEF CpTimeout
    <3> QED
      BY <2>3, <3>1 DEF CpTimeout, cpSc
  <2>4. CASE CpHears
    <3>1. Succeeds(NextSeq(cpSeq), Hearing(Head(toCp)))
      BY <2>2, <2>4 DEF CpHears, Expected
    <3>2. OkState = "ONLINE"
      BY DEF OkState
    <3> QED
      BY <3>1, <3>2 DEF Succeeds, Enter
  <2>5. CASE CpRefuses \/ CpSeqMismatch
    BY <2>2, <2>5 DEF CpRefuses, CpSeqMismatch
  <2>6. CASE CpNoise \/ CpRestart
    BY <2>1, <2>6 DEF CpNoise, CpRestart, Trouble
  <2>7. CASE CpSend \/ CpRetry \/ CpReconnect \/ CpScRetry
    BY <2>7 DEF CpSend, CpRetry, CpReconnect, CpScRetry
  <2>8. CASE \/ PdRefresh \/ PdNoise \/ PdSilence \/ PdRestart \/ LoseCommand \/ LoseReply
             \/ UNCHANGED vars
    BY <2>8 DEF PdRefresh, PdRepeat, PdRefusesSequence, PdRefusesSecurity, PdBadMac,
       PdAnswers, PdKeyset, PdChallenge, PdScrypt, PdNoise, PdSilence, PdRestart,
       LoseCommand, LoseReply, vars, cpSc
  <2> QED
    BY <2>3, <2>4, <2>5, <2>6, <2>7, <2>8 DEF Next, CpRefresh, Disturbance
<1>2. Spec => [][Kept]_vars
  BY <1>1, AlwaysInSession, PTL DEF Spec
<1> QED
  BY <1>2 DEF LossKeepsSession

-----------------------------------------------------------------------------
(* Types, and the random numbers.  A session is told from another one by the
   numbers it was made from, so osdp_fill_random() has to find one that nothing
   remembers.  That takes eight: a frame names one session, by its argument or by
   its MAC (OneSession), a reply on the line is the cached one, and a challenge
   brings one number only.                                                   *)

CpTypes ==
    /\ enforce \in BOOLEAN /\ cpActive \in BOOLEAN /\ dflt \in BOOLEAN
    /\ established \in BOOLEAN
    /\ state \in States /\ phy \in {"IDLE", "WAIT", "REPLY_WAIT"}
    /\ cpSeq \in -1..3 /\ txSeq \in 0..3 /\ retry \in 0..MaxRetries
    /\ cmd \in [code : Commanded, key : Keys \cup {NoKey}]
    /\ cpKey \in Keys /\ cps \in Sessions
PdTypes ==
    /\ pdSeq \in -1..3 /\ pdCmd \in Commanded
    /\ cache \in {NoCache} \cup [code : Commanded, reply : Frames(Replied)]
    /\ pdActive \in BOOLEAN /\ pdDflt \in BOOLEAN /\ install \in BOOLEAN
    /\ pdKey \in Keys \cup {NoKey} /\ stored \in Keys \cup {NoKey}
    /\ pds \in Sessions
LineTypes ==
    /\ toPd = <<>> \/ \E f \in Frames(Commanded) : toPd = <<f>>
    /\ toCp = <<>> \/ \E f \in Frames(Replied) : toCp = <<f>>
    /\ trouble \in 0..MaxTrouble /\ hurt \in BOOLEAN

\* The numbers of at most one session are in a frame.
Numberless(id) == id.cpRnd = 0 /\ id.pdRnd = 0
OneNamed(f) == Numberless(f.arg) \/ f.mac = NoMac
Opens(f) == f.code = "CHLNG" => f.arg.pdRnd = 0 /\ f.mac = NoMac
OneSession ==
    /\ toPd # <<>> => OneNamed(Head(toPd)) /\ Opens(Head(toPd))
    /\ toCp # <<>> => OneNamed(Head(toCp))
    /\ cache # NoCache => OneNamed(cache.reply)
    /\ toCp # <<>> /\ cache # NoCache => Head(toCp) = cache.reply

TInv == CpTypes /\ PdTypes /\ LineTypes /\ OneSession

Enough == Nonces >= 8

LEMMA TypesSuffice == CpTypes /\ PdTypes /\ LineTypes => TypeOK
<1> SUFFICES ASSUME CpTypes, PdTypes, LineTypes PROVE TypeOK
  OBVIOUS
<1>1. \A S : /\ <<>> \in Seq(S) /\ Len(<<>>) <= 1
              /\ \A x \in S : <<x>> \in Seq(S) /\ Len(<<x>>) <= 1
  OBVIOUS
<1>2. /\ toPd \in Seq(Frames(Commanded)) /\ Len(toPd) <= 1
      /\ toCp \in Seq(Frames(Replied)) /\ Len(toCp) <= 1
  BY <1>1, Zenon DEF LineTypes
<1> QED
  BY <1>1, <1>2 DEF TypeOK, CpTypes, PdTypes, LineTypes

LEMMA NoneTypes ==
    /\ NoId \in Ids /\ Numberless(NoId)
    /\ NoMac \in Macs /\ NoSession \in Sessions
<1>1. NoId \in Ids /\ Numberless(NoId)
  BY SecureChannelAssumption DEF NoId, Ids, Numberless
<1>2. NoMac \in Macs
  BY <1>1, SecureChannelAssumption DEF NoMac, Macs
<1> QED
  BY <1>1, <1>2 DEF NoSession, Sessions

LEMMA MacTypes ==
    ASSUME NEW s \in Sessions, NEW iv \in Macs, NEW code \in Commanded \cup Replied
    PROVE  Mac(s, iv, code) \in Macs /\ Mac(s, iv, code).id = s.id
<1>1. s.id \in Ids
  BY DEF Sessions
<1>2. iv.n \in Places
  BY DEF Macs, Places
<1>3. (iv.n + 1) % Wrap \in Places
  BY <1>2, PlaceFacts
<1> QED
  BY <1>1, <1>3 DEF Mac, Macs, Places

\* Seven numbers, and zero, leave one out of eight.
LEMMA OneLeft ==
    ASSUME Enough, NEW g, NEW S, S \subseteq {0} \cup {g[i] : i \in 1..7}
    PROVE  /\ (CHOOSE x \in 1..Nonces : x \notin S) \in 1..Nonces
           /\ (CHOOSE x \in 1..Nonces : x \notin S) \notin S
<1> DEFINE T == {g[i] : i \in 1..7}
           h == [i \in 1..7 |-> g[i]]
<1>1. h \in Surjection(1..7, T)
  BY DEF Surjection
<1>2. IsFiniteSet(1..7) /\ Cardinality(1..7) = 7
  <2>1. 1 \in Int /\ 7 \in Int
    OBVIOUS
  <2>2. IsFiniteSet(1..7) /\ Cardinality(1..7) = IF 1 > 7 THEN 0 ELSE 7 - 1 + 1
    BY ONLY <2>1, FS_Interval, Zenon
  <2> QED
    BY ONLY <2>2
<1>3. IsFiniteSet(T) /\ Cardinality(T) <= 7
  <2> HIDE DEF T, h
  <2> QED
    BY <1>1, <1>2, FS_Surjection
<1>4. IsFiniteSet(1..Nonces) /\ Cardinality(1..Nonces) = Nonces
  BY FS_Interval, SecureChannelAssumption DEF Enough
<1>5. \E x \in 1..Nonces : x \notin S
  <2> SUFFICES ASSUME 1..Nonces \subseteq S PROVE FALSE
    OBVIOUS
  <2>1. 1..Nonces \in SUBSET T
    OBVIOUS
  <2> HIDE DEF T
  <2>2. Cardinality(1..Nonces) <= Cardinality(T)
    BY <1>3, <2>1, FS_Subset
  <2>3. Cardinality(T) \in Nat
    BY <1>3, FS_CardinalityType
  <2> QED
    BY <1>3, <1>4, <2>2, <2>3, SecureChannelAssumption DEF Enough
<1> QED
  BY <1>5

\* What osdp_fill_random() returns is new.
LEMMA NewNumber ==
    ASSUME Enough, TInv, toPd = <<>> \/ (toCp = <<>> /\ Head(toPd).code = "CHLNG")
    PROVE  Random \in 1..Nonces /\ Random \notin InUse
<1> DEFINE Named(f) == {f.arg.cpRnd, f.arg.pdRnd, f.mac.id.cpRnd, f.mac.id.pdRnd}
           Own == {cps.id.cpRnd, cps.id.pdRnd, pds.id.cpRnd, pds.id.pdRnd}
           Kept == IF cache = NoCache THEN {} ELSE Named(cache.reply)
           Coming == IF toPd # <<>> THEN Named(Head(toPd)) ELSE {}
           Going == IF toCp # <<>> THEN Named(Head(toCp)) ELSE {}
<1>1. InUse \subseteq Own \cup Kept \cup Coming \cup Going
  BY DEF InUse, ToSet, TInv, LineTypes
<1>2. \A f : OneNamed(f) => \E a, b : Named(f) \subseteq {0, a, b}
  <2> SUFFICES ASSUME NEW f, OneNamed(f) PROVE \E a, b : Named(f) \subseteq {0, a, b}
    OBVIOUS
  <2>1. CASE Numberless(f.arg)
    <3>1. Named(f) \subseteq {0, f.mac.id.cpRnd, f.mac.id.pdRnd}
      BY <2>1 DEF Numberless
    <3> QED
      BY <3>1
  <2>2. CASE f.mac = NoMac
    <3>1. Named(f) \subseteq {0, f.arg.cpRnd, f.arg.pdRnd}
      BY <2>2 DEF NoMac, NoId
    <3> QED
      BY <3>1
  <2> QED
    BY <2>1, <2>2 DEF OneNamed
<1>3. \A f : OneNamed(f) /\ Opens(f) /\ f.code = "CHLNG" => \E a : Named(f) \subseteq {0, a}
  <2> SUFFICES ASSUME NEW f, Opens(f), f.code = "CHLNG"
               PROVE  \E a : Named(f) \subseteq {0, a}
    OBVIOUS
  <2>1. Named(f) \subseteq {0, f.arg.cpRnd}
    BY DEF Opens, NoMac, NoId
  <2> QED
    BY <2>1
<1>4. PICK a, b : Kept \cup Going \subseteq {0, a, b}
  <2> HIDE DEF Named
  <2>1. CASE toCp # <<>>
    <3>1. PICK a, b : Named(Head(toCp)) \subseteq {0, a, b}
      BY <1>2, <2>1 DEF TInv, OneSession
    <3>2. Kept \subseteq Going
      BY <2>1 DEF TInv, OneSession
    <3> QED
      BY <2>1, <3>1, <3>2
  <2>2. CASE toCp = <<>> /\ cache # NoCache
    BY <1>2, <2>2 DEF TInv, OneSession
  <2>3. CASE toCp = <<>> /\ cache = NoCache
    BY <2>3
  <2> QED
    BY <2>1, <2>2, <2>3
<1>5. PICK c : Coming \subseteq {0, c}
  <2> HIDE DEF Named
  <2>1. CASE toPd # <<>>
    BY <1>3, <2>1 DEF TInv, OneSession
  <2> QED
    BY <2>1
<1>6. PICK g : g = <<cps.id.cpRnd, cps.id.pdRnd, pds.id.cpRnd, pds.id.pdRnd, a, b, c>>
  OBVIOUS
<1>7. {cps.id.cpRnd, cps.id.pdRnd, pds.id.cpRnd, pds.id.pdRnd, a, b, c}
        \subseteq {g[i] : i \in 1..7}
  <2>1. /\ g[1] = cps.id.cpRnd /\ g[2] = cps.id.pdRnd
        /\ g[3] = pds.id.cpRnd /\ g[4] = pds.id.pdRnd
        /\ g[5] = a /\ g[6] = b /\ g[7] = c
    BY <1>6
  <2>2. \A i \in 1..7 : g[i] \in {g[j] : j \in 1..7}
    OBVIOUS
  <2>3. {1, 2, 3, 4, 5, 6, 7} \subseteq 1..7
    OBVIOUS
  <2> HIDE <1>6
  <2> QED
    BY <2>1, <2>2, <2>3
<1>8. InUse \subseteq {0} \cup {g[i] : i \in 1..7}
  <2> HIDE DEF Kept, Coming, Going
  <2> QED
    BY <1>1, <1>4, <1>5, <1>7
<1> QED
  BY <1>8, OneLeft DEF Random

LEMMA FrameTypes ==
    ASSUME NEW codes, NEW code \in codes, NEW seq \in 0..3,
           NEW sec \in {"plain", "handshake", "mac"}, NEW useD \in BOOLEAN,
           NEW arg \in Ids, NEW mac \in Macs
    PROVE  Frame(code, seq, sec, useD, arg, mac) \in Frames(codes)
  BY DEF Frame, Frames

\* What the PD sends.
LEMMA ReplyTypes ==
    ASSUME IInv, TInv, toPd # <<>>,
           NEW s \in Sessions, NEW active \in BOOLEAN, NEW handshake \in BOOLEAN,
           NEW code \in Replied, NEW arg \in Ids, handshake \/ Numberless(arg)
    PROVE  LET r == ReplyTo(Head(toPd), s, active, handshake, code, arg)
           IN r \in Frames(Replied) /\ OneNamed(r)
<1> DEFINE f == Head(toPd)
           mac == IF active /\ ~handshake THEN Mac(s, s.c, code) ELSE NoMac
           sec == IF handshake THEN "handshake" ELSE IF active THEN "mac" ELSE "plain"
<1>1. mac \in Macs
  BY MacTypes, NoneTypes DEF Sessions
<1>2. NextSeq(Base(f)) \in 0..3
  BY CommandFacts
<1>3. sec \in {"plain", "handshake", "mac"}
  OBVIOUS
<1>4. Numberless(arg) \/ mac = NoMac
  OBVIOUS
<1>5. ReplyTo(f, s, active, handshake, code, arg)
        = Frame(code, NextSeq(Base(f)), sec, FALSE, arg, mac)
  BY DEF ReplyTo
<1> DEFINE r == ReplyTo(f, s, active, handshake, code, arg)
<1> HIDE DEF mac, sec
<1>6. r \in Frames(Replied)
  BY <1>1, <1>2, <1>3, <1>5, FrameTypes
<1>7. OneNamed(r)
  BY <1>4, <1>5 DEF OneNamed, Frame
<1> QED
  BY <1>6, <1>7

LEMMA BuildingTypes ==
    ASSUME NEW s \in Sessions, NEW active, NEW code \in Replied
    PROVE  Building(s, active, FALSE, code) \in Sessions
<1>1. Mac(s, s.c, code) \in Macs
  BY MacTypes DEF Sessions
<1>2. [s EXCEPT !.r = Mac(s, s.c, code)] \in Sessions
  BY <1>1 DEF Sessions
<1> QED
  BY <1>2 DEF Building

LEMMA SentTypes ==
    ASSUME IInv, TInv, toPd # <<>>, UNCHANGED <<cpLink, cpSc>>,
           NEW code \in Commanded, NEW reply \in Frames(Replied), OneNamed(reply),
           NEW cached \in {NoCache, cache},
           Sent(Head(toPd), code, reply)
             \/ Unsent(Head(toPd), code, reply, cached),
           pdActive' \in BOOLEAN, pdDflt' \in BOOLEAN, install' \in BOOLEAN,
           pdKey' \in Keys \cup {NoKey}, stored' \in Keys \cup {NoKey},
           pds' \in Sessions
    PROVE  TInv'
<1>1. toCp = <<>> /\ Base(Head(toPd)) \in -1..3 /\ NextSeq(Base(Head(toPd))) \in 0..3
  BY CommandFacts
<1>2. CpTypes'
  BY DEF TInv, CpTypes, cpLink, cpSc
<1>3. /\ pdSeq' \in -1..3 /\ pdCmd' \in Commanded /\ toPd' = <<>>
      /\ toCp' \in {<<>>, <<reply>>}
  BY <1>1 DEF Sent, Unsent
<1>10. hurt' \in BOOLEAN
  <2>1. hurt' = hurt \/ hurt' = TRUE
    BY DEF Sent, Unsent
  <2> QED
    BY <2>1 DEF TInv, LineTypes
<1>4. trouble' \in 0..MaxTrouble
  BY SecureChannelAssumption DEF Sent, Unsent, Trouble, TInv, LineTypes
<1>5. \/ cache' = NoCache
      \/ /\ cache' \in [code : Commanded, reply : Frames(Replied)]
         /\ cache'.reply = reply
  <2>1. CASE Sent(Head(toPd), code, reply)
    BY <2>1 DEF Sent
  <2>2. CASE Unsent(Head(toPd), code, reply, cached) /\ cached # NoCache
    <3>1. cache \in [code : Commanded, reply : Frames(Replied)]
      BY <2>2 DEF TInv, PdTypes
    <3>2. cache' = [cache EXCEPT !.reply = reply]
      BY <2>2 DEF Unsent
    <3> QED
      BY <3>1, <3>2
  <2>3. CASE Unsent(Head(toPd), code, reply, cached) /\ cached = NoCache
    <3>1. cache' = NoCache
      BY <2>3, Zenon DEF Unsent
    <3> QED
      BY <3>1
  <2> QED
    BY <2>1, <2>2, <2>3
<1>6. PdTypes' /\ LineTypes'
  BY <1>3, <1>4, <1>5, <1>10 DEF PdTypes, LineTypes
<1>7. OneSession'
  BY <1>3, <1>5 DEF OneSession
<1> QED
  BY <1>2, <1>6, <1>7 DEF TInv

LEMMA RepliesTypes ==
    ASSUME IInv, TInv, toPd # <<>>, UNCHANGED <<cpLink, cpSc>>,
           NEW code \in Commanded, NEW s \in Sessions, NEW active \in BOOLEAN,
           NEW reply \in Replied, NEW cached \in {NoCache, cache},
           Replies(Head(toPd), code, s, active, cached, reply),
           pdDflt' \in BOOLEAN, UNCHANGED <<install, pdKey, stored>>
    PROVE  TInv'
<1> DEFINE f == Head(toPd)
           r == ReplyTo(f, s, active, FALSE, reply, NoId)
<1>1. Sent(f, code, r) \/ Unsent(f, code, r, cached)
  BY DEF Replies
<1>2. r \in Frames(Replied) /\ OneNamed(r)
  BY ReplyTypes, NoneTypes
<1>3. pds' \in Sessions /\ pdActive' \in BOOLEAN
  BY BuildingTypes DEF Replies
<1>4. install' \in BOOLEAN /\ pdKey' \in Keys \cup {NoKey} /\ stored' \in Keys \cup {NoKey}
  BY DEF TInv, PdTypes
<1> HIDE DEF r
<1> QED
  BY <1>1, <1>2, <1>3, <1>4, SentTypes

LEMMA PdStepTypes == ASSUME Enough PROVE IInv /\ IInv' /\ TInv /\ PdRefresh => TInv'
<1> SUFFICES ASSUME IInv, IInv', TInv, PdRefresh PROVE TInv'
  OBVIOUS
<1> DEFINE f == Head(toPd)
<1>0. toPd # <<>> /\ UNCHANGED <<cpLink, cpSc>>
  BY DEF PdRefresh, PdRepeat, PdRefusesSequence, PdRefusesSecurity, PdBadMac,
     PdAnswers, PdKeyset, PdChallenge, PdScrypt
<1>1. f \in Frames(Commanded) /\ OneNamed(f) /\ Opens(f) /\ toCp = <<>>
  BY <1>0, CommandFacts DEF TInv, LineTypes, OneSession
<1>2. /\ pdActive \in BOOLEAN /\ pdDflt \in BOOLEAN /\ install \in BOOLEAN
      /\ pds \in Sessions /\ pdCmd \in Commanded
      /\ pdKey \in Keys \cup {NoKey} /\ stored \in Keys \cup {NoKey}
  BY DEF TInv, PdTypes
<1>3. ActiveAfterHeader(f) \in BOOLEAN /\ CacheAfterHeader(f) \in {NoCache, cache}
  BY <1>2, CacheAfter DEF ActiveAfterHeader
<1>4. /\ f.code \in Commanded /\ f.arg \in Ids /\ f.useD \in BOOLEAN
  BY <1>1 DEF Frames
<1>5. Checked(f) \in Sessions
  <2>1. Mac(pds, pds.r, f.code) \in Macs
    BY <1>2, <1>4, MacTypes DEF Sessions
  <2>2. [pds EXCEPT !.c = Mac(pds, pds.r, f.code)] \in Sessions
    BY <1>2, <2>1 DEF Sessions
  <2> QED
    BY <1>2, <2>2 DEF Checked
<1>6. DefaultKeyAfter(f) \in BOOLEAN
  BY <1>2, <1>4 DEF DefaultKeyAfter
<1>7. pdKey' \in Keys \cup {NoKey} /\ stored' \in Keys \cup {NoKey}
  BY DEF IInv, KeysKnown
<1>8. CASE PdRepeat
  <2>1. /\ cache # NoCache /\ toPd' = <<>> /\ toCp' = <<cache.reply>>
        /\ UNCHANGED <<cpLink, cpSc, pdLink, pdSc, trouble, hurt>>
    BY <1>8 DEF PdRepeat, CacheHit
  <2>2. cache.reply \in Frames(Replied)
    BY <2>1 DEF TInv, PdTypes
  <2>3. CpTypes' /\ PdTypes' /\ LineTypes'
    BY <2>1, <2>2 DEF TInv, CpTypes, PdTypes, LineTypes, cpLink, cpSc, pdLink, pdSc
  <2>4. OneSession'
    BY <2>1 DEF TInv, OneSession, pdLink
  <2> QED
    BY <2>3, <2>4 DEF TInv
<1>9. CASE PdRefusesSequence \/ PdRefusesSecurity
  <2>1. /\ Replies(f, pdCmd, pds, ActiveAfterHeader(f), CacheAfterHeader(f), "NAK")
        /\ UNCHANGED <<pdDflt, install, pdKey, stored>>
    BY <1>9 DEF PdRefusesSequence, PdRefusesSecurity
  <2>2. "NAK" \in Replied
    BY DEF Replied
  <2> QED
    BY <1>0, <1>2, <1>3, <2>1, <2>2, RepliesTypes
<1>10. CASE PdBadMac
  <2>1. /\ Replies(f, pdCmd, Checked(f), AfterBadMac, NoCache, "NAK")
        /\ UNCHANGED <<pdDflt, install, pdKey, stored>>
    BY <1>10 DEF PdBadMac
  <2>2. "NAK" \in Replied /\ AfterBadMac \in BOOLEAN
    BY DEF Replied, AfterBadMac
  <2> QED
    BY <1>0, <1>2, <1>5, <2>1, <2>2, RepliesTypes
<1>11. CASE PdAnswers
  <2>1. /\ Replies(f, f.code, Checked(f), ActiveAfterHeader(f), CacheAfterHeader(f),
                   Answer[f.code])
        /\ f.code \in DOMAIN Answer
        /\ UNCHANGED <<pdDflt, install, pdKey, stored>>
    BY <1>11 DEF PdAnswers
  <2>2. Answer[f.code] \in Replied
    BY <2>1 DEF Replied, Answer
  <2> QED
    BY <1>0, <1>2, <1>3, <1>4, <1>5, <2>1, <2>2, RepliesTypes
<1>12. CASE PdKeyset
  <2> DEFINE r == ReplyTo(f, Checked(f), TRUE, FALSE, "ACK", NoId)
  <2>0. "ACK" \in Replied /\ "KEYSET" \in Commanded
    BY DEF Replied, Commanded
  <2>1. r \in Frames(Replied) /\ OneNamed(r)
    BY <1>0, <1>5, <2>0, ReplyTypes, NoneTypes
  <2>2. pds' \in Sessions
    BY <1>5, <1>12, <2>0, BuildingTypes DEF PdKeyset
  <2> HIDE DEF r
  <2>3. CASE /\ toPd' = <<>> /\ toCp' = <<r>>
             /\ pdSeq' = NextSeq(Base(f)) /\ pdCmd' = "KEYSET"
             /\ cache' = NoCache
             /\ pdDflt' = FALSE /\ install' = FALSE /\ pdActive' = FALSE
             /\ UNCHANGED <<trouble, hurt>>
    <3>1. NextSeq(Base(f)) \in -1..3
      BY <1>0, CommandFacts
    <3>2. CpTypes' /\ PdTypes' /\ LineTypes'
      BY <1>0, <1>7, <2>0, <2>1, <2>2, <2>3, <3>1
      DEF TInv, CpTypes, PdTypes, LineTypes, cpLink, cpSc
    <3>3. OneSession'
      BY <2>1, <2>3 DEF OneSession
    <3> QED
      BY <3>2, <3>3 DEF TInv
  <2>4. CASE /\ Unsent(f, "KEYSET", r, CacheAfterHeader(f))
             /\ UNCHANGED <<pdKey, pdDflt, install, pdActive>>
    BY <1>0, <1>2, <1>3, <1>7, <2>0, <2>1, <2>2, <2>4, SentTypes
  <2> QED
    BY <1>12, <2>3, <2>4 DEF PdKeyset, r
<1>13. CASE PdChallenge
  <2> DEFINE id == [key |-> SessionKey(f), cpRnd |-> f.arg.cpRnd, pdRnd |-> Random]
             r == ReplyTo(f, NoSession, FALSE, TRUE, "CCRYPT", id)
  <2>0. "CCRYPT" \in Replied /\ "CHLNG" \in Commanded
    BY DEF Replied, Commanded
  <2>1. Random \in 0..Nonces
    <3>1. Head(toPd).code = "CHLNG"
      BY <1>13 DEF PdChallenge
    <3> QED
      BY <1>1, <3>1, NewNumber, SecureChannelAssumption
  <2>2. SessionKey(f) \in Keys \cup {NoKey, ScbkD}
    BY <1>2 DEF SessionKey
  <2>3. f.arg.cpRnd \in 0..Nonces
    BY <1>4 DEF Ids
  <2>4. id \in Ids
    BY <2>1, <2>2, <2>3 DEF Ids
  <2>5. /\ pds' = [NoSession EXCEPT !.id = id]
        /\ pdActive' = FALSE /\ pdDflt' = DefaultKeyAfter(f)
        /\ Sent(f, "CHLNG", r) \/ Unsent(f, "CHLNG", r, NoCache)
        /\ UNCHANGED <<install, pdKey, stored>>
    BY <1>13 DEF PdChallenge
  <2> HIDE DEF id
  <2>6. r \in Frames(Replied) /\ OneNamed(r)
    BY <1>0, <2>0, <2>4, ReplyTypes, NoneTypes
  <2>7. pds' \in Sessions
    BY <2>4, <2>5, NoneTypes DEF Sessions
  <2> HIDE DEF r
  <2> QED
    BY <1>0, <1>2, <1>6, <1>7, <2>0, <2>5, <2>6, <2>7, SentTypes
<1>14. CASE PdScrypt
  <2> DEFINE s == [pds EXCEPT !.r = RMacI(pds)]
             r == ReplyTo(f, s, FALSE, TRUE, "RMAC_I", pds.id)
             ok == ~ActiveAfterHeader(f) /\ f.arg = pds.id
  <2>0. "RMAC_I" \in Replied /\ "NAK" \in Replied /\ "SCRYPT" \in Commanded
    BY DEF Replied, Commanded
  <2>1. pds.id \in Ids
    BY <1>2 DEF Sessions
  <2>2. RMacI(pds) \in Macs
    BY <2>1, SecureChannelAssumption DEF RMacI, Macs
  <2>3. s \in Sessions
    BY <1>2, <2>2 DEF Sessions
  <2>4. pdDflt' = DefaultKeyAfter(f) /\ UNCHANGED <<install, pdKey, stored>>
    BY <1>14 DEF PdScrypt
  <2>5. CASE ok
    <3>1. /\ pds' = s /\ pdActive' = TRUE
          /\ \/ Sent(f, "SCRYPT", r)
             \/ Unsent(f, "SCRYPT", r, CacheAfterHeader(f))
      BY <1>14, <2>5 DEF PdScrypt
    <3> HIDE DEF s
    <3>2. r \in Frames(Replied) /\ OneNamed(r)
      BY <1>0, <2>0, <2>1, <2>3, ReplyTypes
    <3> HIDE DEF r
    <3> QED
      BY <1>0, <1>2, <1>3, <1>6, <1>7, <2>0, <2>3, <2>4, <3>1, <3>2, SentTypes
  <2>6. CASE ~ok
    <3>1. Replies(f, "SCRYPT", pds, ActiveAfterHeader(f), CacheAfterHeader(f), "NAK")
      BY <1>14, <2>6 DEF PdScrypt
    <3> QED
      BY <1>0, <1>2, <1>3, <1>6, <2>0, <2>4, <3>1, RepliesTypes
  <2> QED
    BY <2>5, <2>6
<1> QED
  BY <1>8, <1>9, <1>10, <1>11, <1>12, <1>13, <1>14 DEF PdRefresh

\* What the CP sends.
LEMMA ArgumentTypes ==
    ASSUME TInv, NEW c \in [code : Commanded, key : Keys \cup {NoKey}]
    PROVE  /\ Argument(c) \in Ids
           /\ c.code \notin {"CHLNG", "SCRYPT"} => Numberless(Argument(c))
           /\ c.code = "CHLNG" => Argument(c).pdRnd = 0
<1>1. cps.id \in Ids /\ cps.id.cpRnd \in 0..Nonces
  BY DEF TInv, CpTypes, Sessions, Ids
<1>2. /\ [NoId EXCEPT !.cpRnd = cps.id.cpRnd] \in Ids
      /\ [NoId EXCEPT !.cpRnd = cps.id.cpRnd].pdRnd = 0
  BY <1>1, NoneTypes DEF Ids, NoId
<1>3. [NoId EXCEPT !.key = c.key] \in Ids /\ Numberless([NoId EXCEPT !.key = c.key])
  BY NoneTypes DEF Ids, NoId, Numberless
<1>4. CASE c.code = "CHLNG"
  BY <1>2, <1>4 DEF Argument
<1>5. CASE c.code = "SCRYPT"
  BY <1>1, <1>5 DEF Argument
<1>6. CASE c.code = "KEYSET"
  BY <1>3, <1>6 DEF Argument
<1>7. CASE c.code \notin {"CHLNG", "SCRYPT", "KEYSET"}
  BY <1>7, NoneTypes DEF Argument
<1> QED
  BY <1>4, <1>5, <1>6, <1>7

LEMMA SendTypes ==
    ASSUME TInv, NEW c \in [code : Commanded, key : Keys \cup {NoKey}], NEW seq \in 0..3,
           Transmit(c, seq), cpActive => c.code \notin {"CHLNG", "SCRYPT"},
           cmd' = c, phy' = "REPLY_WAIT", txSeq' = seq, cpSeq' \in -1..3, toCp = <<>>,
           UNCHANGED <<state, retry, enforce, cpActive, dflt, established, cpKey, pdLink,
                       pdSc, toCp, trouble, hurt>>
    PROVE  TInv'
<1>1. PICK arg : arg = Argument(c)
  OBVIOUS
<1>2. /\ arg \in Ids
      /\ c.code \notin {"CHLNG", "SCRYPT"} => Numberless(arg)
      /\ c.code = "CHLNG" => arg.pdRnd = 0
  BY <1>1, ArgumentTypes
<1>3. c.code \in Commanded /\ cps \in Sessions /\ dflt \in BOOLEAN
  BY DEF TInv, CpTypes
<1>4. \E f \in Frames(Commanded) : toPd' = <<f>> /\ OneNamed(f) /\ Opens(f)
  <2>1. CASE cpActive
    <3>1. PICK mac : mac = Mac(cps, cps.r, c.code)
      OBVIOUS
    <3>2. mac \in Macs
      BY <1>3, <3>1, MacTypes DEF Sessions
    <3>3. PICK f : f = Frame(c.code, seq, "mac", FALSE, arg, mac)
      OBVIOUS
    <3>4. f \in Frames(Commanded)
      <4>1. "mac" \in {"plain", "handshake", "mac"} /\ FALSE \in BOOLEAN
        OBVIOUS
      <4>2. Frame(c.code, seq, "mac", FALSE, arg, mac) \in Frames(Commanded)
        BY <1>2, <1>3, <3>2, <4>1, FrameTypes
      <4> QED
        BY <3>3, <4>2
    <3>5. toPd' = <<f>>
      BY <1>1, <2>1, <3>1, <3>3 DEF Transmit
    <3>6. f.arg = arg /\ f.code = c.code
      BY <3>3 DEF Frame
    <3>7. OneNamed(f) /\ Opens(f)
      BY <1>2, <2>1, <3>6 DEF OneNamed, Opens
    <3> QED
      BY <3>4, <3>5, <3>7
  <2>2. CASE ~cpActive
    <3>1. PICK sec : sec = IF c.code \in {"CHLNG", "SCRYPT"} THEN "handshake" ELSE "plain"
      OBVIOUS
    <3>2. PICK u \in BOOLEAN : u = (c.code \in {"CHLNG", "SCRYPT"} /\ dflt)
      OBVIOUS
    <3>3. PICK f : f = Frame(c.code, seq, sec, u, arg, NoMac)
      OBVIOUS
    <3>4. f \in Frames(Commanded)
      <4>1. sec \in {"plain", "handshake", "mac"}
        BY <3>1
      <4>2. Frame(c.code, seq, sec, u, arg, NoMac) \in Frames(Commanded)
        BY <1>2, <1>3, <4>1, NoneTypes, FrameTypes
      <4> QED
        BY <3>3, <4>2
    <3>5. toPd' = <<f>>
      BY <1>1, <2>2, <3>1, <3>2, <3>3 DEF Transmit
    <3>6. f.arg = arg /\ f.code = c.code /\ f.mac = NoMac
      BY <3>3 DEF Frame
    <3> QED
      BY <1>2, <3>4, <3>5, <3>6 DEF OneNamed, Opens
  <2> QED
    BY <2>1, <2>2
<1>5. cps' \in Sessions
  <2>1. Mac(cps, cps.r, c.code) \in Macs
    BY <1>3, MacTypes DEF Sessions
  <2>2. [cps EXCEPT !.c = Mac(cps, cps.r, c.code)] \in Sessions
    BY <1>3, <2>1 DEF Sessions
  <2> QED
    BY <1>3, <2>2 DEF Transmit
<1>6. CpTypes' /\ PdTypes' /\ LineTypes'
  BY <1>4, <1>5 DEF TInv, CpTypes, PdTypes, LineTypes, pdLink, pdSc
<1>7. OneSession'
  BY <1>4 DEF TInv, OneSession, pdLink
<1> QED
  BY <1>6, <1>7 DEF TInv

\* Leaving an exchange, perhaps to draw a number for a new session.
LEMMA LeaveTypes ==
    ASSUME Enough, TInv, NEW n \in States, NEW seq \in -1..3, NEW spent \in 0..MaxRetries,
           NEW s \in Sessions, NEW active \in BOOLEAN,
           Enter(n, seq, spent, s, active), toPd = <<>>,
           enforce' \in BOOLEAN, dflt' \in BOOLEAN, established' \in BOOLEAN,
           cpKey' \in Keys, trouble' \in 0..MaxTrouble,
           UNCHANGED <<pdLink, pdSc, toPd>>
    PROVE  TInv'
<1>1. NewSession \in Sessions
  <2>1. Random \in 0..Nonces
    BY NewNumber, SecureChannelAssumption
  <2>2. [NoId EXCEPT !.cpRnd = Random] \in Ids
    BY <2>1, NoneTypes DEF Ids
  <2>3. NewSession = [NoSession EXCEPT !.id = [NoId EXCEPT !.cpRnd = Random]]
    BY DEF NewSession, NoSession
  <2> QED
    BY <2>2, <2>3, NoneTypes DEF Sessions
<1>2. /\ state' = n /\ phy' = "IDLE" /\ cmd' = NoCmd /\ toCp' = <<>>
      /\ cpActive' = (active /\ n # "OFFLINE")
  BY DEF Enter
<1>3. NoCmd \in [code : Commanded, key : Keys \cup {NoKey}] /\ cpActive' \in BOOLEAN
  BY <1>2 DEF NoCmd, Commanded
<1>4. /\ cpSeq' \in -1..3 /\ txSeq' \in 0..3 /\ retry' \in 0..MaxRetries
      /\ cps' \in Sessions
  BY <1>1, SecureChannelAssumption DEF Enter, TInv, CpTypes
<1>5. hurt' \in BOOLEAN
  <2>1. hurt' = FALSE \/ hurt' = hurt
    BY DEF Enter
  <2> QED
    BY <2>1 DEF TInv, LineTypes
<1>6. CpTypes'
  BY <1>2, <1>3, <1>4 DEF CpTypes
<1>7. PdTypes' /\ LineTypes'
  BY <1>2, <1>5 DEF TInv, PdTypes, LineTypes, pdLink, pdSc
<1>8. OneSession'
  BY <1>2 DEF TInv, OneSession, pdLink
<1> QED
  BY <1>6, <1>7, <1>8 DEF TInv

LEMMA FailTypes ==
    ASSUME Enough, TInv, NEW seq \in -1..3, NEW spent \in 0..MaxRetries,
           NEW s \in Sessions, NEW active \in BOOLEAN,
           Fails(seq, spent, s, active), toPd = <<>>, trouble' \in 0..MaxTrouble,
           UNCHANGED <<enforce, pdLink, pdSc, toPd>>
    PROVE  TInv'
<1>1. enforce' \in BOOLEAN /\ established' \in BOOLEAN /\ cpKey' \in Keys
  BY DEF Fails, TInv, CpTypes
<1>2. dflt' \in BOOLEAN
  <2>1. dflt \in BOOLEAN
    BY DEF TInv, CpTypes
  <2>2. \/ dflt' = (ErrState = "SC_CHLNG" \/ (ErrState = "OFFLINE" /\ dflt))
        \/ dflt' = dflt
    BY DEF Fails
  <2> QED
    BY <2>1, <2>2
<1>3. ErrState \in States
  BY DEF ErrState, States
<1>4. Enter(ErrState, seq, spent, s, active)
  BY DEF Fails
<1> QED
  BY <1>1, <1>2, <1>3, <1>4, LeaveTypes

LEMMA HearingTypes ==
    ASSUME TInv, NEW r \in Frames(Replied)
    PROVE  Hearing(r) \in Sessions
<1>1. cps \in Sessions /\ cps.id \in Ids /\ cps.c \in Macs /\ cpKey \in Keys
  BY DEF TInv, CpTypes, Sessions
<1>2. r.code \in Replied /\ r.arg \in Ids /\ r.arg.pdRnd \in 0..Nonces
  BY DEF Frames, Ids
<1>3. CASE r.sec = "mac"
  <2>1. Hearing(r) = [cps EXCEPT !.r = Mac(cps, cps.c, r.code)]
    BY <1>3 DEF Hearing
  <2>2. Mac(cps, cps.c, r.code) \in Macs
    BY <1>1, <1>2, MacTypes
  <2> QED
    BY <1>1, <2>1, <2>2 DEF Sessions
<1>4. CASE r.sec # "mac" /\ r.code = "CCRYPT"
  <2>1. Hearing(r) = [cps EXCEPT !.id.key = KeyInUse, !.id.pdRnd = r.arg.pdRnd]
    BY <1>4 DEF Hearing
  <2>2. KeyInUse \in Keys \cup {NoKey, ScbkD}
    BY <1>1 DEF KeyInUse
  <2>3. [cps.id EXCEPT !.key = KeyInUse, !.pdRnd = r.arg.pdRnd] \in Ids
    BY <1>1, <1>2, <2>2 DEF Ids
  <2>4. Hearing(r)
          = [cps EXCEPT !.id = [cps.id EXCEPT !.key = KeyInUse, !.pdRnd = r.arg.pdRnd]]
    BY <1>1, <2>1 DEF Sessions, Ids
  <2> QED
    BY <1>1, <2>3, <2>4 DEF Sessions
<1>5. CASE r.sec # "mac" /\ r.code = "RMAC_I"
  <2>1. Hearing(r) = [cps EXCEPT !.r = [NoMac EXCEPT !.id = r.arg]]
    BY <1>5 DEF Hearing
  <2>2. [NoMac EXCEPT !.id = r.arg] \in Macs
    BY <1>2, NoneTypes DEF Macs
  <2> QED
    BY <1>1, <2>1, <2>2 DEF Sessions
<1>6. CASE r.sec # "mac" /\ r.code \notin {"CCRYPT", "RMAC_I"}
  BY <1>1, <1>6 DEF Hearing
<1> QED
  BY <1>3, <1>4, <1>5, <1>6

LEMMA CpStepTypes ==
    ASSUME Enough
    PROVE  IInv /\ SInv /\ TInv /\ (CpRefresh \/ CpScRetry \/ CpNoise) => TInv'
<1> SUFFICES ASSUME IInv, SInv, TInv, CpRefresh \/ CpScRetry \/ CpNoise PROVE TInv'
  OBVIOUS
<1> DEFINE r == Head(toCp)
           s == Hearing(r)
<1>1. /\ enforce \in BOOLEAN /\ dflt \in BOOLEAN /\ established \in BOOLEAN
      /\ cpActive \in BOOLEAN /\ cpKey \in Keys
      /\ cps \in Sessions /\ retry \in 0..MaxRetries /\ 0 \in 0..MaxRetries
      /\ cpSeq \in -1..3 /\ NextSeq(cpSeq) \in -1..3 /\ NextSeq(cpSeq) \in 0..3
  BY NextSeqFacts, SecureChannelAssumption DEF TInv, CpTypes
<1>2. trouble \in 0..MaxTrouble
  BY DEF TInv, LineTypes
<1>3. toCp # <<>> => toPd = <<>> /\ r \in Frames(Replied) /\ s \in Sessions
  <2>1. toCp # <<>> => toPd = <<>> /\ r \in Frames(Replied)
    BY DEF IInv, OneFrame, TInv, LineTypes
  <2> QED
    BY <2>1, HearingTypes
<1>4. CASE CpSend
  <2>1. PICK c \in Commands :
           cmd' = c /\ txSeq' = NextSeq(cpSeq) /\ Transmit(c, NextSeq(cpSeq))
    BY <1>4 DEF CpSend
  <2>2. /\ phy = "IDLE" /\ phy' = "REPLY_WAIT" /\ cpSeq' = cpSeq
        /\ UNCHANGED <<state, retry, enforce, cpActive, dflt, established, cpKey, pdLink,
                       pdSc, toCp, trouble, hurt>>
    BY <1>4 DEF CpSend
  <2>3. toCp = <<>>
    BY <2>2 DEF IInv, OneFrame
  <2>4. c \in [code : Commanded, key : Keys \cup {NoKey}]
    BY <1>1, <2>1 DEF Commands, NoCmd, Commanded
  <2>5. cpActive => c.code \notin {"CHLNG", "SCRYPT"}
    BY <2>1 DEF Commands, NoCmd, SInv, CpChain
  <2>6. PICK seq : seq = NextSeq(cpSeq)
    OBVIOUS
  <2> QED
    BY <1>1, <2>1, <2>2, <2>3, <2>4, <2>5, <2>6, SendTypes
<1>5. CASE CpRetry
  <2>1. /\ phy = "WAIT" /\ cpSeq' = txSeq - 1 /\ NextSeq(txSeq - 1) = txSeq
        /\ txSeq' = txSeq /\ Transmit(cmd, txSeq) /\ phy' = "REPLY_WAIT" /\ cmd' = cmd
        /\ UNCHANGED <<state, retry, enforce, cpActive, dflt, established, cpKey, pdLink,
                       pdSc, toCp, trouble, hurt>>
    <3>1. txSeq \in 0..3 /\ NextSeq(txSeq - 1) = txSeq
      BY RepeatFacts DEF IInv, Numbers
    <3> QED
      BY <1>5, <3>1 DEF CpRetry
  <2>2. /\ toCp = <<>> /\ txSeq \in 0..3 /\ cpSeq' \in -1..3
        /\ cmd \in [code : Commanded, key : Keys \cup {NoKey}]
    BY <2>1 DEF IInv, OneFrame, TInv, CpTypes
  <2>3. cpActive => cmd.code \notin {"CHLNG", "SCRYPT"}
    BY <2>1 DEF SInv, CpChain
  <2> QED
    BY <2>1, <2>2, <2>3, SendTypes
<1>6. CASE CpTimeout
  <2>1. CASE retry < MaxRetries
    <3>1. /\ phy' = "WAIT" /\ retry' = retry + 1
          /\ UNCHANGED <<state, cpSeq, txSeq, cmd, cpSc, toCp, hurt, pdLink, pdSc, toPd,
                         trouble>>
      BY <1>6, <2>1 DEF CpTimeout
    <3>2. retry' \in 0..MaxRetries
      BY <1>1, <2>1, <3>1, SecureChannelAssumption
    <3>3. CpTypes' /\ PdTypes' /\ LineTypes'
      BY <3>1, <3>2 DEF TInv, CpTypes, PdTypes, LineTypes, cpSc, pdLink, pdSc
    <3>4. OneSession'
      BY <3>1 DEF TInv, OneSession, pdLink
    <3> QED
      BY <3>3, <3>4 DEF TInv
  <2>2. CASE ~(retry < MaxRetries)
    <3>1. /\ Fails(cpSeq, retry, cps, cpActive) /\ toPd = <<>>
          /\ UNCHANGED <<enforce, pdLink, pdSc, toPd, trouble>>
      BY <1>6, <2>2 DEF CpTimeout
    <3> QED
      BY <1>1, <1>2, <3>1, FailTypes
  <2> QED
    BY <2>1, <2>2
<1>7. CASE CpReconnect
  <2>1. /\ state' = "INIT" /\ cpSeq' = -1 /\ txSeq' = 0 /\ retry' = 0
        /\ UNCHANGED <<phy, cmd, cpSc, pdLink, pdSc, toPd, toCp, trouble, hurt>>
    BY <1>7 DEF CpReconnect, line
  <2>2. CpTypes' /\ PdTypes' /\ LineTypes'
    BY <1>1, <2>1 DEF TInv, CpTypes, PdTypes, LineTypes, cpSc, pdLink, pdSc, States
  <2>3. OneSession'
    BY <2>1 DEF TInv, OneSession, pdLink
  <2> QED
    BY <2>2, <2>3 DEF TInv
<1>8. CASE CpRefuses \/ CpNoise
  <2>1. /\ Fails(cpSeq, retry, cps, cpActive) /\ toCp # <<>>
        /\ UNCHANGED <<enforce, pdLink, pdSc, toPd>>
    BY <1>8 DEF CpRefuses, CpNoise, Heard
  <2>2. trouble' \in 0..MaxTrouble
    BY <1>2, <1>8, SecureChannelAssumption DEF CpRefuses, CpNoise, Trouble
  <2> QED
    BY <1>1, <1>3, <2>1, <2>2, FailTypes
<1>9. CASE CpSeqMismatch
  <2>1. /\ Enter("OFFLINE", cpSeq, 0, cps, cpActive) /\ toCp # <<>>
        /\ UNCHANGED <<enforce, dflt, established, cpKey, pdLink, pdSc, toPd, trouble>>
    BY <1>9 DEF CpSeqMismatch, Heard
  <2>2. PICK n, spent : n = "OFFLINE" /\ spent = 0
    OBVIOUS
  <2>3. n \in States
    BY <2>2 DEF States
  <2> QED
    BY <1>1, <1>2, <1>3, <2>1, <2>2, <2>3, LeaveTypes
<1>10. CASE CpScRetry
  <2>1. /\ Enter("SC_CHLNG", cpSeq, 0, cps, FALSE) /\ phy = "IDLE"
        /\ UNCHANGED <<enforce, dflt, established, cpKey, pdLink, pdSc, toPd, trouble>>
    BY <1>10 DEF CpScRetry
  <2>2. PICK n, spent, a : n = "SC_CHLNG" /\ spent = 0 /\ a = FALSE
    OBVIOUS
  <2>3. n \in States /\ a \in BOOLEAN
    BY <2>2 DEF States
  <2>4. toPd = <<>>
    BY <2>1 DEF IInv, OneFrame
  <2> QED
    BY <1>1, <1>2, <2>1, <2>2, <2>3, <2>4, LeaveTypes
<1>11. CASE CpHears
  <2>1. toCp # <<>> /\ UNCHANGED <<enforce, pdLink, pdSc, toPd, trouble>>
    BY <1>11 DEF CpHears, Heard
  <2>2. toPd = <<>> /\ s \in Sessions
    BY <1>3, <2>1
  <2>3. \/ Fails(cpSeq, retry, s, FALSE)
        \/ Fails(NextSeq(cpSeq), retry, s, cpActive)
        \/ Succeeds(NextSeq(cpSeq), s)
        \/ Fails(NextSeq(cpSeq), 0, s, cpActive)
    BY <1>11 DEF CpHears
  <2> HIDE DEF s
  <2>4. CASE Fails(cpSeq, retry, s, FALSE)
    <3>1. PICK a \in BOOLEAN : a = FALSE
      OBVIOUS
    <3> QED
      BY <1>1, <1>2, <2>1, <2>2, <2>4, <3>1, FailTypes
  <2>5. CASE Fails(NextSeq(cpSeq), retry, s, cpActive)
    BY <1>1, <1>2, <2>1, <2>2, <2>5, FailTypes
  <2>6. CASE Fails(NextSeq(cpSeq), 0, s, cpActive)
    BY <1>1, <1>2, <2>1, <2>2, <2>6, FailTypes
  <2>7. CASE Succeeds(NextSeq(cpSeq), s)
    <3>1. PICK a \in BOOLEAN :
             a = (state = "SC_SCRYPT" \/ (cpActive /\ cmd.code # "KEYSET"))
      OBVIOUS
    <3>2. Enter(OkState, NextSeq(cpSeq), 0, s, a)
      BY <2>7, <3>1 DEF Succeeds
    <3>3. OkState \in States
      BY DEF OkState, States
    <3>4. dflt' \in BOOLEAN
      BY <1>1, <2>7 DEF Succeeds
    <3>5. established' \in BOOLEAN
      BY <1>1, <2>7 DEF Succeeds
    <3>6. cpKey' \in Keys
      BY <2>7, CpStep, <1>11 DEF CpRefresh, IInv, KeysKnown
    <3> QED
      BY <1>1, <1>2, <2>1, <2>2, <3>2, <3>3, <3>4, <3>5, <3>6, LeaveTypes
  <2> QED
    BY <2>3, <2>4, <2>5, <2>6, <2>7
<1> QED
  BY <1>4, <1>5, <1>6, <1>7, <1>8, <1>9, <1>10, <1>11 DEF CpRefresh

LEMMA DisturbanceTypes ==
    ASSUME Enough
    PROVE  IInv /\ SInv /\ TInv /\ Disturbance => TInv'
<1> SUFFICES ASSUME IInv, SInv, TInv, Disturbance PROVE TInv'
  OBVIOUS
<1>1. trouble \in 0..MaxTrouble /\ 0 \in 0..MaxRetries
  BY SecureChannelAssumption DEF TInv, LineTypes
<1>2. CASE CpRestart
  <2>1. /\ state' = "INIT" /\ phy' = "IDLE" /\ cpSeq' = -1 /\ txSeq' = 0
        /\ retry' = 0 /\ cmd' = NoCmd
        /\ cpActive' = FALSE /\ dflt' = FALSE /\ established' = FALSE
        /\ cps' = NoSession /\ toCp' = <<>>
        /\ UNCHANGED <<enforce, cpKey, pdLink, pdSc, toPd, hurt>>
    BY <1>2 DEF CpRestart
  <2>2. trouble' \in 0..MaxTrouble
    BY <1>1, <1>2, SecureChannelAssumption DEF CpRestart, Trouble
  <2>3. NoCmd \in [code : Commanded, key : Keys \cup {NoKey}]
    BY DEF NoCmd, Commanded
  <2>4. CpTypes'
    <3>1. "INIT" \in States
      BY DEF States
    <3>2. cps' \in Sessions
      BY <2>1, NoneTypes
    <3>3. enforce' \in BOOLEAN /\ cpKey' \in Keys
      BY <2>1 DEF TInv, CpTypes
    <3>4. cpActive' \in BOOLEAN /\ dflt' \in BOOLEAN /\ established' \in BOOLEAN
      BY <2>1
    <3>5. cpSeq' \in -1..3 /\ txSeq' \in 0..3 /\ retry' \in 0..MaxRetries
      BY <1>1, <2>1
    <3>6. state' \in States /\ phy' \in {"IDLE", "WAIT", "REPLY_WAIT"}
      BY <2>1, <3>1
    <3>7. cmd' \in [code : Commanded, key : Keys \cup {NoKey}]
      BY <2>1, <2>3
    <3> QED
      BY <3>2, <3>3, <3>4, <3>5, <3>6, <3>7, Zenon DEF CpTypes
  <2>5. PdTypes' /\ LineTypes'
    BY <2>1, <2>2 DEF TInv, PdTypes, LineTypes, pdLink, pdSc
  <2>6. OneSession'
    BY <2>1 DEF TInv, OneSession, pdLink
  <2> QED
    BY <2>4, <2>5, <2>6 DEF TInv
<1>3. CASE PdNoise \/ PdSilence \/ PdRestart
  <2>1. /\ hurt' = TRUE /\ pdActive' = FALSE /\ cache' = NoCache
        /\ toPd' = <<>> /\ UNCHANGED <<cpLink, cpSc, toCp, stored>>
        /\ pdSeq' \in {-1, pdSeq} /\ pdCmd' \in {"NONE", pdCmd}
        /\ pds' \in {NoSession, pds}
    BY <1>3 DEF PdNoise, PdSilence, PdRestart
  <2>2. trouble' \in 0..MaxTrouble
    BY <1>1, <1>3, SecureChannelAssumption DEF PdNoise, PdSilence, PdRestart, Trouble
  <2>3. pdKey' \in {pdKey, stored}
    BY <1>3 DEF PdNoise, PdSilence, PdRestart
  <2>4. pdDflt' \in BOOLEAN /\ install' \in BOOLEAN
    <3>1. pdDflt \in BOOLEAN /\ install \in BOOLEAN
      BY DEF TInv, PdTypes
    <3>2. \/ pdDflt' = pdDflt /\ install' = install
          \/ pdDflt' = FALSE /\ install' = (install /\ stored = NoKey)
      BY <1>3 DEF PdNoise, PdSilence, PdRestart
    <3> QED
      BY <3>1, <3>2
  <2>5. "NONE" \in Commanded
    BY DEF Commanded
  <2>6. CpTypes'
    BY <2>1 DEF TInv, CpTypes, cpLink, cpSc
  <2>7. PdTypes'
    <3>1. pds' \in Sessions
      BY <2>1, NoneTypes DEF TInv, PdTypes
    <3>2. pdActive' \in BOOLEAN
      BY <2>1
    <3>3. pdSeq' \in -1..3 /\ pdCmd' \in Commanded
      BY <2>1, <2>5 DEF TInv, PdTypes
    <3>4. pdKey' \in Keys \cup {NoKey} /\ stored' \in Keys \cup {NoKey}
      BY <2>1, <2>3 DEF TInv, PdTypes
    <3>5. cache' \in {NoCache} \cup [code : Commanded, reply : Frames(Replied)]
      BY <2>1
    <3> QED
      BY <2>4, <3>1, <3>2, <3>3, <3>4, <3>5, Zenon DEF PdTypes
  <2>8. LineTypes'
    BY <2>1, <2>2 DEF TInv, LineTypes
  <2>9. OneSession'
    BY <2>1 DEF TInv, OneSession
  <2> QED
    BY <2>6, <2>7, <2>8, <2>9 DEF TInv
<1>4. CASE LoseCommand \/ LoseReply
  <2>1. /\ toPd' \in {<<>>, toPd} /\ toCp' \in {<<>>, toCp}
        /\ UNCHANGED <<cpLink, cpSc, pdLink, pdSc, hurt>>
    BY <1>4 DEF LoseCommand, LoseReply
  <2>2. trouble' \in 0..MaxTrouble
    BY <1>1, <1>4, SecureChannelAssumption DEF LoseCommand, LoseReply, Trouble
  <2>3. CpTypes' /\ PdTypes'
    BY <2>1 DEF TInv, CpTypes, PdTypes, cpLink, cpSc, pdLink, pdSc
  <2>4. LineTypes'
    BY <2>1, <2>2 DEF TInv, LineTypes
  <2>5. OneSession'
    BY <2>1 DEF TInv, OneSession, pdLink
  <2> QED
    BY <2>3, <2>4, <2>5 DEF TInv
<1>5. CASE CpNoise
  BY <1>5, CpStepTypes
<1> QED
  BY <1>2, <1>3, <1>4, <1>5 DEF Disturbance

\* Both ends of the secure channel, the cache and the line keep their types; with
\* eight numbers to choose from osdp_fill_random() never fails to find one that
\* no session in sight was made from.
THEOREM TypeCorrect == ASSUME Enough PROVE Spec => []TypeOK
<1>1. Init => TInv
  <2> SUFFICES ASSUME Init PROVE TInv
    OBVIOUS
  <2>1. /\ 0 \in 0..MaxRetries /\ 0 \in 0..MaxTrouble
        /\ NoCmd \in [code : Commanded, key : Keys \cup {NoKey}]
    BY SecureChannelAssumption DEF NoCmd, Commanded
  <2>2. CpTypes
    <3>1. "INIT" \in States
      BY DEF States
    <3>2. cps \in Sessions
      BY NoneTypes DEF Init
    <3>3. enforce \in BOOLEAN /\ cpActive \in BOOLEAN /\ dflt \in BOOLEAN
          /\ established \in BOOLEAN
      BY DEF Init
    <3>4. cpSeq \in -1..3 /\ txSeq \in 0..3 /\ retry \in 0..MaxRetries /\ cpKey \in Keys
      BY <2>1 DEF Init
    <3>5. state \in States /\ phy \in {"IDLE", "WAIT", "REPLY_WAIT"}
      BY <3>1 DEF Init
    <3>6. cmd \in [code : Commanded, key : Keys \cup {NoKey}]
      BY <2>1 DEF Init
    <3> QED
      BY <3>2, <3>3, <3>4, <3>5, <3>6, Zenon DEF CpTypes
  <2>3. PdTypes
    <3>1. pds \in Sessions
      BY NoneTypes DEF Init
    <3>2. "NONE" \in Commanded
      BY DEF Commanded
    <3>3. pdKey \in Keys \cup {NoKey}
      BY DEF Init
    <3>4. pdActive \in BOOLEAN /\ pdDflt \in BOOLEAN /\ install \in BOOLEAN
      BY DEF Init
    <3>5. pdSeq \in -1..3 /\ pdCmd \in Commanded /\ stored \in Keys \cup {NoKey}
      BY <3>2, <3>3 DEF Init
    <3>6. cache \in {NoCache} \cup [code : Commanded, reply : Frames(Replied)]
      BY DEF Init
    <3> QED
      BY <3>1, <3>3, <3>4, <3>5, <3>6, Zenon DEF PdTypes
  <2>4. LineTypes /\ OneSession
    BY <2>1 DEF Init, LineTypes, OneSession
  <2> QED
    BY <2>2, <2>3, <2>4 DEF TInv
<1>2. TInv /\ IInv /\ IInv' /\ SInv /\ [Next]_vars => TInv'
  <2> SUFFICES ASSUME TInv, IInv, IInv', SInv, [Next]_vars PROVE TInv'
    OBVIOUS
  <2>1. CASE UNCHANGED vars
    <3>1. UNCHANGED <<cpLink, cpSc, pdLink, pdSc, toPd, toCp, trouble, hurt>>
      BY <2>1 DEF vars, line
    <3>2. CpTypes' /\ PdTypes' /\ LineTypes'
      BY <3>1 DEF TInv, CpTypes, PdTypes, LineTypes, cpLink, cpSc, pdLink, pdSc
    <3>3. OneSession'
      BY <3>1 DEF TInv, OneSession, pdLink
    <3> QED
      BY <3>2, <3>3 DEF TInv
  <2> QED
    BY <2>1, PdStepTypes, CpStepTypes, DisturbanceTypes DEF Next
<1>3. TInv => TypeOK
  BY TypesSuffice DEF TInv
<1> QED
  BY <1>1, <1>2, <1>3, AlwaysInSession, PTL DEF Spec
=============================================================================
