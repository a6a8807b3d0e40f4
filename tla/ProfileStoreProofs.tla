-------------------------- MODULE ProfileStoreProofs --------------------------
(***************************************************************************)
(* Proofs about ProfileStore: for any processes, commands, profiles and    *)
(* passphrases, and any number of crashes, the reports of the commands     *)
(* are true of the files, whoever else writes them, and only profiles that *)
(* were accepted are loaded.                                               *)
(*                                                                         *)
(* Every step but the ends of commands has a lemma of its own; the ends    *)
(* share one.  Which profiles are valid is looked into only at the end,    *)
(* where what is loaded is shown to lead somewhere.                        *)
(***************************************************************************)
EXTENDS ProfileStore, WellFoundedInduction, TLAPS

\* What the files may hold: nothing is present in a missing file or one that is
\* no JSON, and an envelope has the name of its profile.
LEMMA ContentFacts ==
    /\ Missing \in Contents /\ NoJson \in Contents /\ Mixed \in Contents
    /\ ~Present(Missing) /\ ~Present(NoJson)
    /\ ValidNames \subseteq Names
    /\ \A n \in Names, w \in Passphrases :
          Envelope(n, w) \in Contents /\ Present(Envelope(n, w)) /\ Envelope(n, w).name = n
<1>1. /\ Missing \in Contents /\ NoJson \in Contents /\ Mixed \in Contents
      /\ \A n \in Names, w \in Passphrases : Envelope(n, w) \in Contents
  BY DEF Contents
<1>2. ~Present(Missing) /\ ~Present(NoJson)
  BY DEF Present, Missing, NoJson
<1>3. ValidNames \subseteq Names
  BY DEF ValidNames
<1>4. \A n \in Names, w \in Passphrases : Present(Envelope(n, w)) /\ Envelope(n, w).name = n
  BY DEF Present, Envelope
<1> QED
  BY <1>1, <1>2, <1>3, <1>4

\* What is found is a content.
LEMMA FoundFacts == Found \subseteq Contents
<1>1. \A n \in DOMAIN Inputs \cap ValidNames : n \in Names
  BY DEF Names
<1> QED
  BY <1>1, ContentFacts DEF Found

\* What decrypts is the envelope of a valid profile.
LEMMA DecryptsFacts ==
    ASSUME NEW c, NEW w, Decrypts(c, w)
    PROVE  c.name \in ValidNames
BY DEF Decrypts

\* No token is one that is not fresh, and no measure one that is not clean.
LEMMA TokenFacts ==
    /\ NoToken \in [name : Names \cup {"none"}, fresh : BOOLEAN, raced : BOOLEAN]
    /\ NoToken.fresh = FALSE
    /\ NoHist \in [clean : BOOLEAN, before : Contents] /\ NoHist.clean = FALSE
BY ContentFacts DEF NoToken, NoHist

\* What a command starts from is clean when nobody writes its files.
LEMMA BegunFacts ==
    ASSUME NEW S \in SUBSET Files, NEW before \in Contents
    PROVE  /\ Begun(S, before) \in [clean : BOOLEAN, before : Contents]
           /\ Begun(S, before).clean =>
                  Begun(S, before).before = before /\ \A f \in S : writers[f] = {}
<1>1. CASE \A f \in S : writers[f] = {}
  <2>1. Begun(S, before) = [clean |-> TRUE, before |-> before]
    BY <1>1 DEF Begun
  <2> QED
    BY <1>1, <2>1
<1>2. CASE ~(\A f \in S : writers[f] = {})
  <2>1. Begun(S, before) = NoHist
    BY <1>2 DEF Begun
  <2> QED
    BY <2>1, TokenFacts
<1> QED
  BY <1>1, <1>2

----------------------------------------------------------------------------
(* The invariant, one process at a time *)

\* What it says of process q,
Whole(q) ==
    /\ pc[q] \in {"open", "write"} => command[q] \in {"write", "copy"}
    /\ pc[q] = "read" => command[q] \in {"copy"} \cup Uses
    /\ pc[q] \in {"status", "token", "plan"} => command[q] \in Uses
    /\ outcome[q] # "none" => pc[q] = "done"
    /\ \A f \in Files : q \in writers[f] <=> pc[q] = "write" /\ target[q] = f
    /\ hist[q].clean =>
        /\ command[q] \in {"write", "copy"} /\ pc[q] \in {"read", "open"} =>
              writers[target[q]] = {} /\ content[target[q]] = hist[q].before
        /\ pc[q] = "write" => q \in alone
        /\ command[q] = "copy" /\ pc[q] = "read" => Present(content[source[q]])
        /\ pc[q] \in {"open", "write"} => Present(held[q])
        /\ command[q] \in Uses /\ pc[q] = "status" => Present(content["local"])
        /\ command[q] \in {"write", "copy"} /\ outcome[q] = "ok" =>
              content[target[q]] = held[q] /\ Present(held[q])
        /\ command[q] \in {"write", "copy"} /\ outcome[q] = "blocked" =>
              \/ content[target[q]] = hist[q].before
              \/ content[target[q]] = held[q] /\ Present(held[q])
        /\ command[q] \in {"unlock", "start"} /\ pc[q] \in {"read", "token", "plan"} =>
              source[q] = "local"
    /\ pc[q] \in {"token", "plan"} => held[q].name \in ValidNames

\* of who is alone, and of the token.
AloneIsAlone == \A q \in alone : writers[target[q]] = {q}
TokenHolds == FreshIsSafe /\ (token # NoToken => token.name \in ValidNames)

\* The invariant says all this,
LEMMA Takeapart ==
    ASSUME IInv
    PROVE  TypeOK /\ (\A q \in Procs : Whole(q)) /\ AloneIsAlone /\ TokenHolds
<1>1. \A q \in Procs : Whole(q)
  BY DEF IInv, Whole, StepOfCommand, WritersWrite, Undisturbed, SuccessIsWhole,
         BlockedIsAllOrNothing, LocalComesFirst, LoadedValid, At
<1> QED
  BY <1>1 DEF IInv, AloneIsAlone, TokenHolds, WritersWrite, LoadedValid

\* and no more.
LEMMA Together ==
    ASSUME TypeOK', \A q \in Procs : Whole(q)', AloneIsAlone', TokenHolds'
    PROVE  IInv'
<1>1. (StepOfCommand /\ WritersWrite /\ Undisturbed)'
  BY DEF Whole, StepOfCommand, WritersWrite, Undisturbed, AloneIsAlone, At
<1>2. (SuccessIsWhole /\ BlockedIsAllOrNothing /\ LocalComesFirst)'
  BY DEF Whole, SuccessIsWhole, BlockedIsAllOrNothing, LocalComesFirst
<1>3. (FreshIsSafe /\ LoadedValid)'
  BY DEF Whole, LoadedValid, TokenHolds
<1> QED
  BY <1>1, <1>2, <1>3 DEF IInv

\* The files a process uses are files.
LEMMA UsedFiles ==
    ASSUME TypeOK, NEW q \in Procs
    PROVE  FilesOf(q) \subseteq Files
<1>1. source[q] \in Files /\ target[q] \in Files /\ "local" \in Files
  BY DEF TypeOK, Files
<1> QED
  BY <1>1 DEF FilesOf

\* A process q that a step leaves alone, and that is measured on only when the
\* files it uses were left alone as well.
Same(q) ==
    /\ command'[q] = command[q] /\ pc'[q] = pc[q] /\ outcome'[q] = outcome[q]
    /\ source'[q] = source[q] /\ target'[q] = target[q] /\ held'[q] = held[q]
    /\ \A f \in Files : q \in writers'[f] <=> q \in writers[f]
    /\ hist'[q].clean =>
        /\ hist'[q] = hist[q]
        /\ q \in alone => q \in alone'
        /\ \A f \in FilesOf(q) :
              content'[f] = content[f] /\ (writers[f] = {} => writers'[f] = {})

\* What the invariant says of it stays true.
LEMMA OtherKeeps ==
    ASSUME TypeOK, NEW q \in Procs, Whole(q), Same(q)
    PROVE  Whole(q)'
<1>1. /\ command[q] = "copy" => source[q] \in FilesOf(q) /\ target[q] \in FilesOf(q)
      /\ command[q] = "write" => target[q] \in FilesOf(q)
      /\ command[q] \in Uses => "local" \in FilesOf(q)
  BY DEF FilesOf, Uses
<1>2. /\ command[q] \in {"write", "copy"} => target[q] \in FilesOf(q)
      /\ command[q] = "copy" => source[q] \in FilesOf(q)
      /\ command[q] \in Uses => "local" \in FilesOf(q)
  BY <1>1
<1>3. CASE ~hist'[q].clean
  BY <1>3 DEF Whole, Same
<1>4. CASE hist'[q].clean
  BY <1>2, <1>4 DEF Whole, Same
<1> QED
  BY <1>3, <1>4

\* A step of p on nothing but itself.
LEMMA MoveKeeps ==
    ASSUME IInv, NEW p \in Procs, TypeOK', Whole(p)', UNCHANGED <<disk, token>>,
           \A q \in Procs \ {p} : Same(q),
           pc[p] # "write",
           pc'[p] = "expire" => pc[p] = "expire" \/ ~token.fresh
    PROVE  IInv'
<1>1. TypeOK /\ (\A q \in Procs : Whole(q)) /\ AloneIsAlone /\ TokenHolds
  BY Takeapart
<1>2. \A q \in Procs : Whole(q)'
  BY <1>1, OtherKeeps
<1>3. UNCHANGED <<content, writers, alone, token>>
  BY DEF disk
<1>4. AloneIsAlone'
  <2>1. p \notin alone
    BY <1>1 DEF AloneIsAlone, Whole, TypeOK
  <2>2. \A q \in alone : q \in Procs /\ q # p
    BY <1>1, <2>1 DEF TypeOK
  <2> QED
    BY <1>1, <1>3, <2>2 DEF AloneIsAlone, Same
<1>5. TokenHolds'
  BY <1>1, <1>3 DEF TokenHolds, FreshIsSafe, Polling, At, Same
<1> QED
  BY <1>2, <1>4, <1>5, Together

\* A command to encrypt or convert a profile begins.
LEMMA BeginWriteStep ==
    ASSUME IInv, NEW p \in Procs, NEW n \in Names, NEW w \in Passphrases \cup {NoPassphrase},
           NEW f \in Files, BeginWrite(p, n, w, f)
    PROVE  IInv'
<1>1. TypeOK /\ Whole(p)
  BY Takeapart
<1>2. /\ pc[p] = "done" /\ UNCHANGED <<content, writers, alone, token, crashes>>
      /\ command' = [command EXCEPT ![p] = "write"]
      /\ source' = [source EXCEPT ![p] = f] /\ target' = [target EXCEPT ![p] = f]
      /\ phrase' = [phrase EXCEPT ![p] = NoPassphrase]
      /\ \/ /\ w \in Passphrases /\ held' = [held EXCEPT ![p] = Envelope(n, w)]
            /\ pc' = [pc EXCEPT ![p] = "open"] /\ outcome' = [outcome EXCEPT ![p] = "none"]
         \/ /\ held' = [held EXCEPT ![p] = Missing]
            /\ pc' = [pc EXCEPT ![p] = "done"] /\ outcome' = [outcome EXCEPT ![p] = "blocked"]
      /\ hist' = [hist EXCEPT ![p] = Begun({f}, content[f])]
  BY DEF BeginWrite, May, At, Begin, Hold, Goto, Proceed, Answer, disk
<1>3. /\ Begun({f}, content[f]) \in [clean : BOOLEAN, before : Contents]
      /\ Begun({f}, content[f]).clean => Begun({f}, content[f]).before = content[f] /\ \A g \in {f} : writers[g] = {}
  BY <1>1, <1>2, BegunFacts, ContentFacts DEF TypeOK, Files
<1>4. TypeOK'
  <2>1. held' \in [Procs -> Contents]
    BY <1>1, <1>2, <1>3, ContentFacts, TokenFacts DEF TypeOK, Files
  <2>2. /\ pc' \in [Procs -> {"done", "read", "open", "write", "status", "token", "plan", "expire"}]
        /\ outcome' \in [Procs -> {"none", "ok", "blocked"}]
    BY <1>1, <1>2 DEF TypeOK
  <2> QED
    BY <1>1, <1>2, <1>3, <2>1, <2>2, ContentFacts, TokenFacts DEF TypeOK, Files, CommandNames, Uses
<1>5. Whole(p)'
  BY <1>1, <1>2, <1>3, ContentFacts, TokenFacts DEF TypeOK, Whole, Uses
<1>6. \A q \in Procs \ {p} : Same(q)
  BY <1>1, <1>2 DEF TypeOK, Same
<1>7. pc[p] # "write" /\ (pc'[p] = "expire" => pc[p] = "expire" \/ ~token.fresh)
  BY <1>1, <1>2 DEF TypeOK
<1> QED
  BY <1>2, <1>4, <1>5, <1>6, <1>7, MoveKeeps DEF disk

\* A copy begins, when its source is there.
LEMMA BeginCopyStep ==
    ASSUME IInv, NEW p \in Procs, NEW from \in Files, NEW to \in Files,
           BeginCopy(p, from, to)
    PROVE  IInv'
<1>1. TypeOK /\ Whole(p)
  BY Takeapart
<1>2. /\ pc[p] = "done" /\ UNCHANGED <<content, writers, alone, token, crashes>>
      /\ command' = [command EXCEPT ![p] = "copy"]
      /\ source' = [source EXCEPT ![p] = from] /\ target' = [target EXCEPT ![p] = to]
      /\ held' = [held EXCEPT ![p] = Missing]
      /\ phrase' = [phrase EXCEPT ![p] = NoPassphrase]
      /\ \/ /\ Present(content[from])
            /\ pc' = [pc EXCEPT ![p] = "read"] /\ outcome' = [outcome EXCEPT ![p] = "none"]
         \/ pc' = [pc EXCEPT ![p] = "done"] /\ outcome' = [outcome EXCEPT ![p] = "blocked"]
      /\ hist' = [hist EXCEPT ![p] = Begun({from, to}, content[to])]
  BY DEF BeginCopy, May, At, Begin, Hold, Goto, Proceed, Answer, disk
<1>3. /\ Begun({from, to}, content[to]) \in [clean : BOOLEAN, before : Contents]
      /\ Begun({from, to}, content[to]).clean => Begun({from, to}, content[to]).before = content[to] /\ \A g \in {from, to} : writers[g] = {}
  BY <1>1, <1>2, BegunFacts, ContentFacts DEF TypeOK, Files
<1>4. TypeOK'
  <2>1. held' \in [Procs -> Contents]
    BY <1>1, <1>2, <1>3, ContentFacts, TokenFacts DEF TypeOK, Files
  <2>2. /\ pc' \in [Procs -> {"done", "read", "open", "write", "status", "token", "plan", "expire"}]
        /\ outcome' \in [Procs -> {"none", "ok", "blocked"}]
    BY <1>1, <1>2 DEF TypeOK
  <2> QED
    BY <1>1, <1>2, <1>3, <2>1, <2>2, ContentFacts, TokenFacts DEF TypeOK, Files, CommandNames, Uses
<1>5. Whole(p)'
  BY <1>1, <1>2, <1>3, ContentFacts, TokenFacts DEF TypeOK, Whole, Uses
<1>6. \A q \in Procs \ {p} : Same(q)
  BY <1>1, <1>2 DEF TypeOK, Same
<1>7. pc[p] # "write" /\ (pc'[p] = "expire" => pc[p] = "expire" \/ ~token.fresh)
  BY <1>1, <1>2 DEF TypeOK
<1> QED
  BY <1>2, <1>4, <1>5, <1>6, <1>7, MoveKeeps DEF disk

\* A copy reads its source: a clean one finds what it saw.
LEMMA CopyReadStep ==
    ASSUME IInv, NEW p \in Procs, CopyRead(p)
    PROVE  IInv'
<1>1. TypeOK /\ Whole(p)
  BY Takeapart
<1>2. /\ pc[p] = "read" /\ command[p] = "copy"
      /\ UNCHANGED <<content, writers, alone, token, crashes, hist, command, source, target, phrase>>
      /\ \/ /\ content[source[p]] # Missing
            /\ pc' = [pc EXCEPT ![p] = "open"] /\ held' = [held EXCEPT ![p] = content[source[p]]]
            /\ outcome' = outcome
         \/ /\ pc' = [pc EXCEPT ![p] = "done"] /\ outcome' = [outcome EXCEPT ![p] = "blocked"]
            /\ held' = held
  BY DEF CopyRead, Report, job, May, At, Begin, Hold, Goto, Proceed, Answer, disk
<1>4. TypeOK'
  <2>1. held' \in [Procs -> Contents]
    BY <1>1, <1>2, ContentFacts, TokenFacts DEF TypeOK, Files
  <2>2. /\ pc' \in [Procs -> {"done", "read", "open", "write", "status", "token", "plan", "expire"}]
        /\ outcome' \in [Procs -> {"none", "ok", "blocked"}]
    BY <1>1, <1>2 DEF TypeOK
  <2> QED
    BY <1>1, <1>2, <2>1, <2>2, ContentFacts, TokenFacts DEF TypeOK, Files, CommandNames, Uses
<1>5. Whole(p)'
  BY <1>1, <1>2, ContentFacts, TokenFacts DEF TypeOK, Whole, Uses
<1>6. \A q \in Procs \ {p} : Same(q)
  BY <1>1, <1>2 DEF TypeOK, Same
<1>7. pc[p] # "write" /\ (pc'[p] = "expire" => pc[p] = "expire" \/ ~token.fresh)
  BY <1>1, <1>2 DEF TypeOK
<1> QED
  BY <1>2, <1>4, <1>5, <1>6, <1>7, MoveKeeps DEF disk

\* A command that uses a profile begins.
LEMMA BeginUseStep ==
    ASSUME IInv, NEW p \in Procs, NEW cmd \in Uses, NEW w \in Passphrases \cup {NoPassphrase},
           BeginUse(p, cmd, w)
    PROVE  IInv'
<1>1. TypeOK /\ Whole(p)
  BY Takeapart
<1>2. /\ pc[p] = "done" /\ UNCHANGED <<content, writers, alone, token, crashes>>
      /\ command' = [command EXCEPT ![p] = cmd]
      /\ target' = [target EXCEPT ![p] = "local"]
      /\ held' = [held EXCEPT ![p] = Missing]
      /\ phrase' = [phrase EXCEPT ![p] = w]
      /\ outcome' = [outcome EXCEPT ![p] = "none"]
      /\ \/ /\ cmd = "api_unlock" \/ (cmd = "unlock" /\ ~Present(content["local"]))
            /\ source' = [source EXCEPT ![p] = "usb"] /\ pc' = [pc EXCEPT ![p] = "read"]
         \/ source' = [source EXCEPT ![p] = "local"] /\ pc' = [pc EXCEPT ![p] = "status"]
      /\ hist' = [hist EXCEPT ![p] =
            IF Present(content["local"]) THEN Begun({"local"}, Missing) ELSE NoHist]
  BY DEF BeginUse, Sources, May, At, Begin, Hold, Goto, Proceed, Answer, disk
<1>3. LET b == IF Present(content["local"]) THEN Begun({"local"}, Missing) ELSE NoHist
      IN  b \in [clean : BOOLEAN, before : Contents] /\ (b.clean => Present(content["local"]))
  BY BegunFacts, ContentFacts, TokenFacts DEF Files
<1>4. TypeOK'
  <2>1. held' \in [Procs -> Contents]
    BY <1>1, <1>2, <1>3, ContentFacts, TokenFacts DEF TypeOK, Files
  <2>2. /\ pc' \in [Procs -> {"done", "read", "open", "write", "status", "token", "plan", "expire"}]
        /\ outcome' \in [Procs -> {"none", "ok", "blocked"}]
    BY <1>1, <1>2 DEF TypeOK
  <2> QED
    BY <1>1, <1>2, <1>3, <2>1, <2>2, ContentFacts, TokenFacts DEF TypeOK, Files, CommandNames, Uses
<1>5. Whole(p)'
  BY <1>1, <1>2, <1>3, ContentFacts, TokenFacts DEF TypeOK, Whole, Uses
<1>6. \A q \in Procs \ {p} : Same(q)
  BY <1>1, <1>2 DEF TypeOK, Same
<1>7. pc[p] # "write" /\ (pc'[p] = "expire" => pc[p] = "expire" \/ ~token.fresh)
  BY <1>1, <1>2 DEF TypeOK
<1> QED
  BY <1>2, <1>4, <1>5, <1>6, <1>7, MoveKeeps DEF disk

\* A command finds the source it uses: a clean one its own.
LEMMA FindSourceStep ==
    ASSUME IInv, NEW p \in Procs, NEW f \in Files, At(p, "status"), f \in Sources,
           source' = [source EXCEPT ![p] = f], Goto(p, "read"),
           UNCHANGED <<command, outcome, target, held, phrase, hist, disk, token, crashes>>
    PROVE  IInv'
<1>1. TypeOK /\ Whole(p)
  BY Takeapart
<1>2. /\ pc[p] = "status" /\ (Present(content["local"]) => f = "local")
      /\ source' = [source EXCEPT ![p] = f] /\ pc' = [pc EXCEPT ![p] = "read"]
      /\ UNCHANGED <<content, writers, alone, token, crashes, command, outcome, target, held, phrase, hist>>
  BY DEF Sources, May, At, Begin, Hold, Goto, Proceed, Answer, disk
<1>4. TypeOK'
  BY <1>1, <1>2, ContentFacts, TokenFacts DEF TypeOK, Files, CommandNames, Uses
<1>5. Whole(p)'
  BY <1>1, <1>2, ContentFacts, TokenFacts DEF TypeOK, Whole, Uses
<1>6. \A q \in Procs \ {p} : Same(q)
  BY <1>1, <1>2 DEF TypeOK, Same
<1>7. pc[p] # "write" /\ (pc'[p] = "expire" => pc[p] = "expire" \/ ~token.fresh)
  BY <1>1, <1>2 DEF TypeOK
<1> QED
  BY <1>2, <1>4, <1>5, <1>6, <1>7, MoveKeeps DEF disk

\* What a command has read decrypts.
LEMMA UseReadStep ==
    ASSUME IInv, NEW p \in Procs, NEW label \in {"plan", "token"}, At(p, "read"), command[p] \in Uses,
           Decrypts(content[source[p]], phrase[p]), Goto(p, label), Hold(p, content[source[p]]),
           UNCHANGED <<outcome, job, hist, disk, token, crashes>>
    PROVE  IInv'
<1>1. TypeOK /\ Whole(p)
  BY Takeapart
<1>2. /\ pc[p] = "read" /\ command[p] \in Uses /\ content[source[p]].name \in ValidNames
      /\ held' = [held EXCEPT ![p] = content[source[p]]] /\ pc' = [pc EXCEPT ![p] = label]
      /\ UNCHANGED <<content, writers, alone, token, crashes, command, outcome, source, target, phrase, hist>>
  BY DecryptsFacts DEF job, May, At, Begin, Hold, Goto, Proceed, Answer, disk
<1>4. TypeOK'
  BY <1>1, <1>2, ContentFacts, TokenFacts DEF TypeOK, Files, CommandNames, Uses
<1>5. Whole(p)'
  BY <1>1, <1>2, ContentFacts, TokenFacts DEF TypeOK, Whole, Uses
<1>6. \A q \in Procs \ {p} : Same(q)
  BY <1>1, <1>2 DEF TypeOK, Same
<1>7. pc[p] # "write" /\ (pc'[p] = "expire" => pc[p] = "expire" \/ ~token.fresh)
  BY <1>1, <1>2 DEF TypeOK
<1> QED
  BY <1>2, <1>4, <1>5, <1>6, <1>7, MoveKeeps DEF disk

\* A poll has read an expired token.
LEMMA PollReadStep ==
    ASSUME IInv, NEW p \in Procs, PollRead(p)
    PROVE  IInv'
<1>1. TypeOK /\ Whole(p)
  BY Takeapart
<1>2. /\ pc[p] = "done" /\ ~token.fresh
      /\ UNCHANGED <<content, writers, alone, token, crashes, hist>>
      /\ command' = [command EXCEPT ![p] = "poll"]
      /\ source' = [source EXCEPT ![p] = "local"] /\ target' = [target EXCEPT ![p] = "local"]
      /\ held' = [held EXCEPT ![p] = Missing]
      /\ phrase' = [phrase EXCEPT ![p] = NoPassphrase]
      /\ outcome' = [outcome EXCEPT ![p] = "none"] /\ pc' = [pc EXCEPT ![p] = "expire"]
  BY DEF PollRead, Expired, May, At, Begin, Hold, Goto, Proceed, Answer, disk
<1>4. TypeOK'
  BY <1>1, <1>2, ContentFacts, TokenFacts DEF TypeOK, Files, CommandNames, Uses
<1>5. Whole(p)'
  BY <1>1, <1>2, ContentFacts, TokenFacts DEF TypeOK, Whole, Uses
<1>6. \A q \in Procs \ {p} : Same(q)
  BY <1>1, <1>2 DEF TypeOK, Same
<1>7. pc[p] # "write" /\ (pc'[p] = "expire" => pc[p] = "expire" \/ ~token.fresh)
  BY <1>1, <1>2 DEF TypeOK
<1> QED
  BY <1>2, <1>4, <1>5, <1>6, <1>7, MoveKeeps DEF disk

\* A command is refused by the file system before it has the file open.
LEMMA RefusedStep ==
    ASSUME IInv, NEW p \in Procs, At(p, "open"), Refused(p),
           UNCHANGED <<disk, hist, token, crashes>>
    PROVE  IInv'
<1>1. TypeOK /\ Whole(p)
  BY Takeapart
<1>2. /\ pc[p] = "open" /\ UNCHANGED <<content, writers, alone, token, crashes, hist>>
      /\ pc' = [pc EXCEPT ![p] = "done"]
      /\ \/ /\ outcome' = [outcome EXCEPT ![p] = "blocked"]
            /\ UNCHANGED <<command, source, target, held, phrase>>
         \/ /\ outcome' = [outcome EXCEPT ![p] = "none"]
            /\ command' = [command EXCEPT ![p] = "none"]
            /\ source' = [source EXCEPT ![p] = "local"] /\ target' = [target EXCEPT ![p] = "local"]
            /\ held' = [held EXCEPT ![p] = Missing]
            /\ phrase' = [phrase EXCEPT ![p] = NoPassphrase]
  BY DEF Refused, Report, Forget, job, May, At, Begin, Hold, Goto, Proceed, Answer, disk
<1>4. TypeOK'
  <2>1. held' \in [Procs -> Contents]
    BY <1>1, <1>2, ContentFacts, TokenFacts DEF TypeOK, Files
  <2>2. /\ pc' \in [Procs -> {"done", "read", "open", "write", "status", "token", "plan", "expire"}]
        /\ outcome' \in [Procs -> {"none", "ok", "blocked"}]
    BY <1>1, <1>2 DEF TypeOK
  <2>3. /\ source' \in [Procs -> Files] /\ target' \in [Procs -> Files]
        /\ command' \in [Procs -> CommandNames \cup {"none"}]
    <3>1. source' \in [Procs -> Files] /\ target' \in [Procs -> Files]
      <4>1. "local" \in Files
        BY DEF Files
      <4>2. source' \in [Procs -> Files]
        BY <1>1, <1>2, <4>1 DEF TypeOK
      <4>3. target' \in [Procs -> Files]
        BY <1>1, <1>2, <4>1 DEF TypeOK
      <4> QED
        BY <4>2, <4>3
    <3>2. command' \in [Procs -> CommandNames \cup {"none"}]
      BY <1>1, <1>2 DEF TypeOK
    <3> QED
      BY <3>1, <3>2
  <2>4. phrase' \in [Procs -> Passphrases \cup {NoPassphrase}]
    BY <1>1, <1>2 DEF TypeOK
  <2> QED
    BY <1>1, <1>2, <2>1, <2>2, <2>3, <2>4, ContentFacts, TokenFacts DEF TypeOK, Files, CommandNames, Uses
<1>5. Whole(p)'
  BY <1>1, <1>2, ContentFacts, TokenFacts DEF TypeOK, Whole, Uses
<1>6. \A q \in Procs \ {p} : Same(q)
  BY <1>1, <1>2 DEF TypeOK, Same
<1>7. pc[p] # "write" /\ (pc'[p] = "expire" => pc[p] = "expire" \/ ~token.fresh)
  BY <1>1, <1>2 DEF TypeOK
<1> QED
  BY <1>2, <1>4, <1>5, <1>6, <1>7, MoveKeeps DEF disk

----------------------------------------------------------------------------
(* The ends of commands *)

\* A command ends with nothing to report, its file closed, and a token there
\* that is not about to be removed or known to be raced.
LEMMA FinishKeeps ==
    ASSUME IInv, NEW p \in Procs, Finish(p), UNCHANGED content,
           writers' = [f \in Files |-> writers[f] \ {p}], alone' = alone \ {p},
           crashes' \in 0 .. MaxCrashes,
           token' \in [name : Names \cup {"none"}, fresh : BOOLEAN, raced : BOOLEAN],
           token' # NoToken => token'.name \in ValidNames,
           token'.fresh /\ ~token'.raced => \A q \in Procs \ {p} : pc[q] # "expire"
    PROVE  IInv'
<1>1. TypeOK /\ (\A q \in Procs : Whole(q)) /\ AloneIsAlone /\ TokenHolds
  BY Takeapart
<1>2. /\ command' = [command EXCEPT ![p] = "none"] /\ pc' = [pc EXCEPT ![p] = "done"]
      /\ outcome' = [outcome EXCEPT ![p] = "none"]
      /\ source' = [source EXCEPT ![p] = "local"] /\ target' = [target EXCEPT ![p] = "local"]
      /\ held' = [held EXCEPT ![p] = Missing] /\ phrase' = [phrase EXCEPT ![p] = NoPassphrase]
      /\ hist' = [hist EXCEPT ![p] = NoHist]
  BY DEF Finish, Forget, Answer, Goto, Begin, Hold
<1>3. TypeOK'
  BY <1>1, <1>2, ContentFacts, TokenFacts DEF TypeOK, Files, CommandNames
<1>4. Whole(p)'
  BY <1>1, <1>2, TokenFacts DEF TypeOK, Whole, Uses
<1>5. \A q \in Procs \ {p} : Same(q)
  <2> SUFFICES ASSUME NEW q \in Procs \ {p} PROVE Same(q)
    OBVIOUS
  <2>1. FilesOf(q) \subseteq Files
    BY <1>1, UsedFiles
  <2>2. \A f \in Files : /\ q \in writers'[f] <=> q \in writers[f]
                       /\ writers[f] = {} => writers'[f] = {}
    BY <1>1 DEF TypeOK
  <2> QED
    BY <1>1, <1>2, <2>1, <2>2 DEF TypeOK, Same
<1>6. \A q \in Procs : Whole(q)'
  BY <1>1, <1>4, <1>5, OtherKeeps
<1>7. AloneIsAlone'
  BY <1>1, <1>5 DEF AloneIsAlone, Same, TypeOK
<1>8. TokenHolds'
  BY <1>1, <1>2 DEF TokenHolds, FreshIsSafe, Polling, At, TypeOK
<1> QED
  BY <1>3, <1>6, <1>7, <1>8, Together

\* A command ends that has no file open.
LEMMA QuietFinishKeeps ==
    ASSUME IInv, NEW p \in Procs, Finish(p), pc[p] # "write", UNCHANGED <<disk, crashes>>,
           token' \in [name : Names \cup {"none"}, fresh : BOOLEAN, raced : BOOLEAN],
           token' # NoToken => token'.name \in ValidNames,
           token'.fresh /\ ~token'.raced => \A q \in Procs \ {p} : pc[q] # "expire"
    PROVE  IInv'
<1>1. TypeOK /\ (\A q \in Procs : Whole(q)) /\ AloneIsAlone
  BY Takeapart
<1>2. \A f \in Files : p \notin writers[f]
  BY <1>1 DEF Whole
<1>3. p \notin alone
  BY <1>1, <1>2 DEF AloneIsAlone, TypeOK
<1>4. writers' = [f \in Files |-> writers[f] \ {p}] /\ alone' = alone \ {p}
  BY <1>1, <1>2, <1>3 DEF TypeOK, disk
<1>5. crashes' \in 0 .. MaxCrashes /\ UNCHANGED content
  BY <1>1 DEF TypeOK, disk
<1> QED
  BY <1>4, <1>5, FinishKeeps

\* One ends and leaves the token as it is.
LEMMA EndKeeps ==
    ASSUME IInv, NEW p \in Procs, Finish(p), pc[p] # "write", UNCHANGED <<disk, crashes, token>>
    PROVE  IInv'
<1>1. TypeOK /\ TokenHolds
  BY Takeapart
<1>2. /\ token' \in [name : Names \cup {"none"}, fresh : BOOLEAN, raced : BOOLEAN]
      /\ token' # NoToken => token'.name \in ValidNames
      /\ token'.fresh /\ ~token'.raced => \A q \in Procs \ {p} : pc[q] # "expire"
  BY <1>1 DEF TypeOK, TokenHolds, FreshIsSafe, Polling, At
<1> QED
  BY <1>2, QuietFinishKeeps

\* A command is cut short.
LEMMA CrashStep ==
    ASSUME IInv, NEW p \in Procs, Crash(p)
    PROVE  IInv'
<1>1. TypeOK /\ TokenHolds
  BY Takeapart
<1>2. /\ token' \in [name : Names \cup {"none"}, fresh : BOOLEAN, raced : BOOLEAN]
      /\ token' # NoToken => token'.name \in ValidNames
      /\ token'.fresh /\ ~token'.raced => \A q \in Procs \ {p} : pc[q] # "expire"
  BY <1>1 DEF TypeOK, TokenHolds, FreshIsSafe, Polling, At, Crash
<1>3. crashes' \in 0 .. MaxCrashes
  BY <1>1, ProfileAssumption DEF TypeOK, Crash
<1> QED
  BY <1>2, <1>3, FinishKeeps DEF Crash

\* An unlock writes its token, of the valid profile it holds; one that a poll
\* is about to remove is known to be raced.
LEMMA WriteTokenStep ==
    ASSUME IInv, NEW p \in Procs, WriteToken(p)
    PROVE  IInv'
<1>1. TypeOK /\ Whole(p)
  BY Takeapart
<1>2. held[p].name \in ValidNames /\ held[p].name \in Names /\ pc[p] = "token"
  BY <1>1, ContentFacts DEF Whole, WriteToken, At
<1>3. token' = [name |-> held[p].name, fresh |-> TRUE, raced |-> Polling]
  BY DEF WriteToken
<1>4. Polling \in BOOLEAN
  BY DEF Polling
<1>5. token' \in [name : Names \cup {"none"}, fresh : BOOLEAN, raced : BOOLEAN]
  BY <1>2, <1>3, <1>4
<1>6. token'.raced = Polling /\ token'.name = held[p].name
  BY <1>3, Zenon
<1>7. token'.fresh /\ ~token'.raced => \A q \in Procs \ {p} : pc[q] # "expire"
  BY <1>6, Zenon DEF Polling, At
<1> QED
  BY <1>2, <1>5, <1>6, <1>7, QuietFinishKeeps DEF WriteToken

\* A poll removes the token there is.
LEMMA PollRemoveStep ==
    ASSUME IInv, NEW p \in Procs, PollRemove(p)
    PROVE  IInv'
BY TokenFacts, QuietFinishKeeps DEF PollRemove, At

----------------------------------------------------------------------------
(* The steps on a file *)

\* What the change of file g leaves of a process q that is not the one that
\* changes it: one that uses the file is measured no more.
Beside(q, g) ==
    /\ command'[q] = command[q] /\ pc'[q] = pc[q] /\ outcome'[q] = outcome[q]
    /\ source'[q] = source[q] /\ target'[q] = target[q] /\ held'[q] = held[q]
    /\ hist'[q] = IF g \in FilesOf(q) THEN NoHist ELSE hist[q]
    /\ \A f \in Files : q \in writers'[f] <=> q \in writers[f]
    /\ \A f \in Files \ {g} :
           content'[f] = content[f] /\ (writers[f] = {} => writers'[f] = {})
    /\ q \notin writers[g] => (q \in alone => q \in alone')

\* It is left alone as far as the invariant goes.
LEMMA DisturbedIsSame ==
    ASSUME TypeOK, NEW g \in Files, NEW q \in Procs, Whole(q), Beside(q, g)
    PROVE  Same(q)
<1>1. hist'[q] = IF g \in FilesOf(q) THEN NoHist ELSE hist[q]
  BY DEF Beside
<1>2. ASSUME hist'[q].clean PROVE hist'[q] = hist[q] /\ g \notin FilesOf(q)
  BY <1>1, <1>2, TokenFacts
<1>3. ASSUME hist'[q].clean, q \in alone PROVE q \in alone'
  <2>1. q \notin writers[g]
    BY <1>2, <1>3 DEF Whole, FilesOf
  <2> QED
    BY <1>3, <2>1 DEF Beside
<1>4. FilesOf(q) \subseteq Files
  BY UsedFiles
<1> QED
  BY <1>2, <1>3, <1>4 DEF Same, Beside

\* A command opens its file: it is alone if nobody has the file open, and
\* those who have are alone no more.
LEMMA OpenStep ==
    ASSUME IInv, NEW p \in Procs, NEW g \in Files, At(p, "open"), g = target[p],
           content' = [content EXCEPT ![g] = NoJson],
           writers' = [writers EXCEPT ![g] = @ \cup {p}],
           alone' = IF writers[g] = {} THEN alone \cup {p} ELSE alone \ writers[g],
           Disturb(p, g, hist[p]), Goto(p, "write"),
           UNCHANGED <<outcome, job, held, token, crashes>>
    PROVE  IInv'
<1>1. TypeOK /\ (\A q \in Procs : Whole(q)) /\ AloneIsAlone /\ TokenHolds
  BY Takeapart
<1>2. /\ pc[p] = "open" /\ pc' = [pc EXCEPT ![p] = "write"] /\ hist'[p] = hist[p]
      /\ UNCHANGED <<command, outcome, source, target, held, phrase, token, crashes>>
  BY DEF At, Goto, Disturb, job
<1>3. TypeOK'
  <2>1. content' \in [Files -> Contents] /\ writers' \in [Files -> SUBSET Procs]
    BY <1>1, ContentFacts DEF TypeOK
  <2>2. alone' \in SUBSET Procs
    BY <1>1 DEF TypeOK
  <2>3. hist' \in [Procs -> [clean : BOOLEAN, before : Contents]]
    BY <1>1, TokenFacts DEF TypeOK, Disturb
  <2>4. pc' \in [Procs -> {"done", "read", "open", "write", "status", "token", "plan", "expire"}]
    BY <1>1, <1>2 DEF TypeOK
  <2> QED
    BY <1>1, <1>2, <2>1, <2>2, <2>3, <2>4 DEF TypeOK
<1>4. Whole(p)'
  BY <1>1, <1>2 DEF TypeOK, Whole, Uses
<1>5. \A q \in Procs \ {p} : Same(q)
  <2> SUFFICES ASSUME NEW q \in Procs \ {p} PROVE Same(q)
    OBVIOUS
  <2>1. /\ command'[q] = command[q] /\ pc'[q] = pc[q] /\ outcome'[q] = outcome[q]
        /\ source'[q] = source[q] /\ target'[q] = target[q] /\ held'[q] = held[q]
    BY <1>1, <1>2 DEF TypeOK
  <2>2. \A f \in Files : q \in writers'[f] <=> q \in writers[f]
    BY <1>1 DEF TypeOK
  <2>3. \A f \in Files \ {g} :
            content'[f] = content[f] /\ (writers[f] = {} => writers'[f] = {})
    BY <1>1 DEF TypeOK
  <2>4. q \notin writers[g] => (q \in alone => q \in alone')
    OBVIOUS
  <2>5. hist'[q] = IF g \in FilesOf(q) THEN NoHist ELSE hist[q]
    BY DEF Disturb
  <2> QED
    <3>1. Beside(q, g)
      BY <2>1, <2>2, <2>3, <2>4, <2>5 DEF Beside
    <3> QED
      BY <1>1, <3>1, DisturbedIsSame
<1>6. \A q \in Procs : Whole(q)'
  BY <1>1, <1>4, <1>5, OtherKeeps
<1>7. AloneIsAlone'
  <2> SUFFICES ASSUME NEW q \in alone' PROVE writers'[target[q]] = {q}
    BY <1>2 DEF AloneIsAlone
  <2>1. CASE q = p
    <3>1. p \notin alone
      BY <1>1, <1>2 DEF AloneIsAlone, Whole, TypeOK
    <3>2. writers[g] = {}
      BY <2>1, <3>1
    <3> QED
      BY <1>1, <2>1, <3>2 DEF TypeOK
  <2>2. CASE q # p
    <3>1. q \in alone /\ writers[target[q]] = {q} /\ target[q] # g
      BY <1>1, <2>2 DEF AloneIsAlone
    <3> QED
      BY <1>1, <3>1 DEF TypeOK
  <2> QED
    BY <2>1, <2>2
<1>8. TokenHolds'
  BY <1>1, <1>2 DEF TokenHolds, FreshIsSafe, Polling, At, TypeOK
<1> QED
  BY <1>3, <1>6, <1>7, <1>8, Together

\* A writer is done with its file, which holds c, and either reports the
\* profile written or that the disk was full.
LEMMA CloseKeeps ==
    ASSUME IInv, NEW p \in Procs, NEW g \in Files, At(p, "write"), g = target[p],
           NEW c \in Contents, content' = [content EXCEPT ![g] = c],
           writers' = [writers EXCEPT ![g] = @ \ {p}], alone' = alone \ {p},
           NEW own \in {hist[p], NoHist}, Disturb(p, g, own),
           pc' = [pc EXCEPT ![p] = "done"],
           \A q \in Procs \ {p} :
               /\ command'[q] = command[q] /\ outcome'[q] = outcome[q]
               /\ source'[q] = source[q] /\ target'[q] = target[q] /\ held'[q] = held[q],
           own.clean /\ p \in alone => c = held[p],
           \/ /\ outcome'[p] \in {"ok", "blocked"}
              /\ UNCHANGED <<command, source, target, held>>
           \/ command'[p] = "none" /\ outcome'[p] = "none",
           TypeOK', UNCHANGED token
    PROVE  IInv'
<1>1. TypeOK /\ (\A q \in Procs : Whole(q)) /\ AloneIsAlone /\ TokenHolds
  BY Takeapart
<1>2. pc[p] = "write" /\ hist'[p] = own
  BY DEF At, Disturb
<1>4. Whole(p)'
  <2>1. \A f \in Files : p \notin writers'[f]
    BY <1>1, <1>2 DEF TypeOK, Whole
  <2>2. pc'[p] = "done" /\ (own.clean => content'[target[p]] = c)
    BY <1>1 DEF TypeOK
  <2>3. ~own.clean => Whole(p)'
    BY <1>2, <2>1, <2>2 DEF Whole, TypeOK
  <2>4. CASE command'[p] = "none" /\ outcome'[p] = "none"
    BY <1>2, <2>1, <2>2, <2>4 DEF Whole, TypeOK, Uses
  <2>5. ASSUME own.clean, outcome'[p] \in {"ok", "blocked"},
               UNCHANGED <<command, source, target, held>>
        PROVE  Whole(p)'
    <3>1. own = hist[p]
      BY <2>5, TokenFacts
    <3>2. p \in alone /\ Present(held[p]) /\ command[p] \in {"write", "copy"}
      BY <1>1, <1>2, <2>5, <3>1 DEF Whole
    <3> QED
      BY <1>2, <2>1, <2>2, <2>5, <3>2 DEF Whole, TypeOK, Uses
  <2> QED
    BY <2>3, <2>4, <2>5
<1>5. \A q \in Procs \ {p} : Same(q)
  <2> SUFFICES ASSUME NEW q \in Procs \ {p} PROVE Same(q)
    OBVIOUS
  <2>1. pc'[q] = pc[q]
    BY <1>1 DEF TypeOK
  <2>2. \A f \in Files : q \in writers'[f] <=> q \in writers[f]
    BY <1>1 DEF TypeOK
  <2>3. \A f \in Files \ {g} :
            content'[f] = content[f] /\ (writers[f] = {} => writers'[f] = {})
    BY <1>1 DEF TypeOK
  <2>4. q \notin writers[g] => (q \in alone => q \in alone')
    OBVIOUS
  <2>5. hist'[q] = IF g \in FilesOf(q) THEN NoHist ELSE hist[q]
    BY DEF Disturb
  <2> QED
    <3>1. Beside(q, g)
      BY <2>1, <2>2, <2>3, <2>4, <2>5 DEF Beside
    <3> QED
      BY <1>1, <3>1, DisturbedIsSame
<1>6. \A q \in Procs : Whole(q)'
  BY <1>1, <1>4, <1>5, OtherKeeps
<1>7. AloneIsAlone'
  <2> SUFFICES ASSUME NEW q \in alone' PROVE writers'[target'[q]] = {q}
    BY DEF AloneIsAlone
  <2>1. q \in alone /\ q # p /\ q \in Procs /\ target'[q] = target[q] /\ target[q] \in Files
    BY <1>1 DEF TypeOK
  <2>2. writers[target[q]] = {q}
    BY <1>1, <2>1 DEF AloneIsAlone
  <2> QED
    BY <1>1, <2>1, <2>2 DEF TypeOK
<1>8. TokenHolds'
  BY <1>1, <1>2 DEF TokenHolds, FreshIsSafe, Polling, At, TypeOK
<1> QED
  BY <1>6, <1>7, <1>8, Together

\* A command has written its file, or not.
LEMMA WriteStep ==
    ASSUME IInv, NEW p \in Procs, Write(p)
    PROVE  IInv'
<1> DEFINE g == target[p]
<1>1. TypeOK /\ Whole(p)
  BY Takeapart
<1>2. /\ pc[p] = "write" /\ At(p, "write") /\ g \in Files
      /\ writers' = [writers EXCEPT ![g] = @ \ {p}] /\ alone' = alone \ {p}
      /\ UNCHANGED <<token, crashes>>
  BY <1>1 DEF Write, At, TypeOK
<1>3. /\ writers' \in [Files -> SUBSET Procs] /\ alone' \in SUBSET Procs
      /\ hist[p] \in [clean : BOOLEAN, before : Contents]
  BY <1>1, <1>2 DEF TypeOK
<1>4. PICK c \in {held[p], NoJson, Mixed}, own \in {hist[p], NoHist} :
          /\ content' = [content EXCEPT ![g] = c]
          /\ own.clean /\ p \in alone => c = held[p]
          /\ Disturb(p, g, own)
          /\ Report(p, "ok") \/ Refused(p)
  <2>1. CASE content' = [content EXCEPT ![g] = NoJson] /\ Refused(p) /\ Disturb(p, g, NoHist)
    BY <2>1, TokenFacts
  <2>2. CASE /\ IF p \in alone THEN content' = [content EXCEPT ![g] = held[p]]
                ELSE \E c \in {held[p], NoJson, Mixed} : content' = [content EXCEPT ![g] = c]
             /\ Report(p, "ok") \/ Refused(p)
             /\ Disturb(p, g, hist[p])
    BY <2>2
  <2> QED
    BY <2>1, <2>2 DEF Write
<1>5. c \in Contents /\ own \in [clean : BOOLEAN, before : Contents]
  BY <1>1, <1>3, <1>4, ContentFacts, TokenFacts DEF TypeOK
<1>6. /\ pc' = [pc EXCEPT ![p] = "done"]
      /\ \/ /\ \E report \in {"ok", "blocked"} : outcome' = [outcome EXCEPT ![p] = report]
            /\ UNCHANGED <<command, source, target, held, phrase>>
         \/ /\ outcome' = [outcome EXCEPT ![p] = "none"]
            /\ command' = [command EXCEPT ![p] = "none"]
            /\ source' = [source EXCEPT ![p] = "local"]
            /\ target' = [target EXCEPT ![p] = "local"]
            /\ held' = [held EXCEPT ![p] = Missing]
            /\ phrase' = [phrase EXCEPT ![p] = NoPassphrase]
  BY <1>4 DEF Refused, Report, Forget, Answer, Goto, Begin, Hold, job
<1>7. TypeOK'
  <2>1. content' \in [Files -> Contents] /\ outcome' \in [Procs -> {"none", "ok", "blocked"}]
    <3>1. content' \in [Files -> Contents]
      BY <1>1, <1>4, <1>5 DEF TypeOK
    <3>2. PICK report \in {"none", "ok", "blocked"} : outcome' = [outcome EXCEPT ![p] = report]
      BY <1>6
    <3> QED
      BY <1>1, <3>1, <3>2 DEF TypeOK
  <2>2. hist' \in [Procs -> [clean : BOOLEAN, before : Contents]]
    BY <1>1, <1>4, <1>5, TokenFacts DEF TypeOK, Disturb
  <2>3. pc' \in [Procs -> {"done", "read", "open", "write", "status", "token", "plan", "expire"}]
    BY <1>1, <1>6 DEF TypeOK
  <2>4. source' \in [Procs -> Files] /\ target' \in [Procs -> Files]
    <3>1. "local" \in Files
      BY DEF Files
    <3>2. /\ source' = source \/ source' = [source EXCEPT ![p] = "local"]
          /\ target' = target \/ target' = [target EXCEPT ![p] = "local"]
      BY <1>6
    <3>3. source \in [Procs -> Files] /\ target \in [Procs -> Files]
      BY <1>1 DEF TypeOK
    <3>4. [source EXCEPT ![p] = "local"] \in [Procs -> Files]
      BY <3>1, <3>3
    <3>5. [target EXCEPT ![p] = "local"] \in [Procs -> Files]
      BY <3>1, <3>3
    <3> QED
      BY <3>2, <3>3, <3>4, <3>5
  <2>5. command' \in [Procs -> CommandNames \cup {"none"}]
    BY <1>1, <1>6 DEF TypeOK
  <2>6. held' \in [Procs -> Contents]
    BY <1>1, <1>6, ContentFacts DEF TypeOK
  <2>7. phrase' \in [Procs -> Passphrases \cup {NoPassphrase}]
    BY <1>1, <1>6 DEF TypeOK
  <2> QED
    BY <1>1, <1>2, <1>3, <2>1, <2>2, <2>3, <2>4, <2>5, <2>6, <2>7 DEF TypeOK
<1>8. \A q \in Procs \ {p} :
          /\ command'[q] = command[q] /\ outcome'[q] = outcome[q]
          /\ source'[q] = source[q] /\ target'[q] = target[q] /\ held'[q] = held[q]
  BY <1>1, <1>6 DEF TypeOK
<1>9. \/ outcome'[p] \in {"ok", "blocked"} /\ UNCHANGED <<command, source, target, held>>
      \/ command'[p] = "none" /\ outcome'[p] = "none"
  BY <1>1, <1>6 DEF TypeOK
<1>10. UNCHANGED token /\ pc' = [pc EXCEPT ![p] = "done"]
  BY <1>2, <1>6
<1>11. /\ content' = [content EXCEPT ![g] = c] /\ Disturb(p, g, own)
       /\ own.clean /\ p \in alone => c = held[p]
  BY <1>4
<1> HIDE DEF g
<1> QED
  BY <1>2, <1>5, <1>7, <1>8, <1>9, <1>10, <1>11, CloseKeeps, Zenon DEF g

----------------------------------------------------------------------------
(* The token and the medium *)

\* A lock removes the token, and time makes it expire.
LEMMA TokenStep ==
    ASSUME IInv, (\E p \in Procs : Lock(p)) \/ Expire
    PROVE  IInv'
<1>1. TypeOK /\ (\A q \in Procs : Whole(q)) /\ AloneIsAlone /\ TokenHolds
  BY Takeapart
<1>2. /\ UNCHANGED <<content, writers, alone, command, pc, outcome, source, target, held,
                     phrase, hist, crashes>>
      /\ token' \in [name : Names \cup {"none"}, fresh : BOOLEAN, raced : BOOLEAN]
      /\ token'.fresh = FALSE /\ (token' # NoToken => token # NoToken /\ token'.name = token.name)
  <2>1. CASE \E p \in Procs : Lock(p)
    BY <1>1, <2>1, TokenFacts DEF Lock, disk, procs, job
  <2>2. CASE Expire
    BY <1>1, <2>2 DEF Expire, disk, procs, job, TypeOK
  <2> QED
    BY <2>1, <2>2
<1>3. TypeOK'
  BY <1>1, <1>2 DEF TypeOK
<1>4. \A q \in Procs : Whole(q)'
  BY <1>1, <1>2 DEF Whole
<1>5. AloneIsAlone' /\ TokenHolds'
  BY <1>1, <1>2 DEF AloneIsAlone, TokenHolds, FreshIsSafe
<1> QED
  BY <1>3, <1>4, <1>5, Together

\* The medium changes: a command that uses it is measured no more.
LEMMA PlugStep ==
    ASSUME IInv, Plug
    PROVE  IInv'
<1>1. TypeOK /\ (\A q \in Procs : Whole(q)) /\ AloneIsAlone /\ TokenHolds
  BY Takeapart
<1>2. PICK c \in Found : content' = [content EXCEPT !["usb"] = c]
  BY DEF Plug
<1>3. UNCHANGED <<writers, alone, token, command, pc, outcome, source, target, held, phrase,
                  crashes>>
  BY DEF Plug, procs, job
<1>4. hist' = [q \in Procs |-> IF "usb" \in FilesOf(q) THEN NoHist ELSE hist[q]]
  BY DEF Plug
<1>5. TypeOK'
  <2>1. content' \in [Files -> Contents]
    BY <1>1, <1>2, FoundFacts DEF TypeOK
  <2>2. hist' \in [Procs -> [clean : BOOLEAN, before : Contents]]
    BY <1>1, <1>4, TokenFacts DEF TypeOK
  <2> QED
    BY <1>1, <1>3, <2>1, <2>2 DEF TypeOK
<1>6. \A q \in Procs : Same(q)
  <2> SUFFICES ASSUME NEW q \in Procs PROVE Same(q)
    OBVIOUS
  <2>1. hist'[q].clean => hist'[q] = hist[q] /\ "usb" \notin FilesOf(q)
    BY <1>4, TokenFacts
  <2>2. \A f \in Files : f # "usb" => content'[f] = content[f]
    BY <1>1, <1>2 DEF TypeOK
  <2>3. FilesOf(q) \subseteq Files
    BY <1>1, UsedFiles
  <2> QED
    BY <1>3, <2>1, <2>2, <2>3 DEF Same
<1>7. \A q \in Procs : Whole(q)'
  BY <1>1, <1>6, OtherKeeps
<1>8. AloneIsAlone' /\ TokenHolds'
  BY <1>1, <1>3 DEF AloneIsAlone, TokenHolds, FreshIsSafe, Polling, At
<1> QED
  BY <1>5, <1>7, <1>8, Together

----------------------------------------------------------------------------
(* The specification *)

\* The invariant holds at the start,
LEMMA Start ==
    ASSUME Init
    PROVE  IInv
<1>1. TypeOK
  <2>1. content \in [Files -> Contents]
    BY FoundFacts DEF Init
  <2>2. 0 \in 0 .. MaxCrashes
    BY ProfileAssumption
  <2> QED
    BY <2>1, <2>2, ContentFacts, TokenFacts DEF Init, TypeOK, Files, CommandNames
<1>2. NoHist.clean = FALSE /\ NoToken.fresh = FALSE
  BY TokenFacts
<1>3. StepOfCommand /\ WritersWrite /\ Undisturbed /\ LoadedValid
  BY <1>2 DEF Init, StepOfCommand, WritersWrite, Undisturbed, LoadedValid, At, Uses
<1>4. SuccessIsWhole /\ BlockedIsAllOrNothing /\ LocalComesFirst /\ FreshIsSafe
  BY <1>2 DEF Init, SuccessIsWhole, BlockedIsAllOrNothing, LocalComesFirst, FreshIsSafe
<1> QED
  BY <1>1, <1>3, <1>4 DEF IInv

\* Whatever a process does keeps the invariant.
LEMMA ProcessStep ==
    ASSUME IInv, NEW p \in Procs,
           \/ \E n \in Names, w \in Passphrases \cup {NoPassphrase}, f \in Files :
                 BeginEncrypt(p, n, w, f) \/ BeginConvert(p, n, w, f)
           \/ BeginImport(p) \/ BeginExport(p)
           \/ CopyRead(p) \/ Open(p) \/ Write(p)
           \/ \E cmd \in Uses, w \in Passphrases \cup {NoPassphrase} : BeginUse(p, cmd, w)
           \/ FindSource(p) \/ UseRead(p) \/ Plan(p) \/ WriteToken(p)
           \/ PollRead(p) \/ PollRemove(p) \/ Lock(p) \/ Crash(p)
    PROVE  IInv'
<1>1. CASE \E n \in Names, w \in Passphrases \cup {NoPassphrase}, f \in Files :
              BeginEncrypt(p, n, w, f) \/ BeginConvert(p, n, w, f)
  BY <1>1, BeginWriteStep DEF BeginEncrypt, BeginConvert
<1>2. CASE BeginImport(p) \/ BeginExport(p)
  BY <1>2, BeginCopyStep DEF BeginImport, BeginExport, Files
<1>3. CASE CopyRead(p)
  BY <1>3, CopyReadStep
<1>4. CASE Open(p)
  <2>1. At(p, "open") /\ UNCHANGED <<token, crashes>> /\ target[p] \in Files
    BY <1>4 DEF Open, IInv, TypeOK
  <2>2. CASE Refused(p) /\ UNCHANGED <<disk, hist>>
    BY <2>1, <2>2, RefusedStep
  <2>3. CASE ~(Refused(p) /\ UNCHANGED <<disk, hist>>)
    <3>1. /\ content' = [content EXCEPT ![target[p]] = NoJson]
          /\ writers' = [writers EXCEPT ![target[p]] = @ \cup {p}]
          /\ alone' = IF writers[target[p]] = {} THEN alone \cup {p}
                      ELSE alone \ writers[target[p]]
          /\ Disturb(p, target[p], hist[p]) /\ Goto(p, "write")
          /\ UNCHANGED <<outcome, job, held>>
      BY <1>4, <2>3 DEF Open
    <3> QED
      BY <2>1, <3>1, OpenStep
  <2> QED
    BY <2>2, <2>3
<1>5. CASE Write(p)
  BY <1>5, WriteStep
<1>6. CASE \E cmd \in Uses, w \in Passphrases \cup {NoPassphrase} : BeginUse(p, cmd, w)
  BY <1>6, BeginUseStep
<1>7. CASE FindSource(p)
  <2>1. CASE Sources = {} /\ Finish(p)
    BY <1>7, <2>1, EndKeeps DEF FindSource, At
  <2>2. CASE ~(Sources = {} /\ Finish(p))
    <3>1. PICK f \in Sources : source' = [source EXCEPT ![p] = f]
      BY <1>7, <2>2 DEF FindSource
    <3>2. f \in Files
      BY DEF Sources, Files
    <3> QED
      BY <1>7, <2>2, <3>1, <3>2, FindSourceStep DEF FindSource
  <2> QED
    BY <2>1, <2>2
<1>8. CASE UseRead(p)
  <2>1. At(p, "read") /\ command[p] \in Uses /\ UNCHANGED <<disk, token, crashes>>
    BY <1>8 DEF UseRead
  <2>2. CASE Finish(p)
    BY <2>1, <2>2, EndKeeps DEF At
  <2>3. CASE ~Finish(p)
    <3>1. PICK label \in {"plan", "token"} :
              /\ Decrypts(content[source[p]], phrase[p]) /\ Goto(p, label)
              /\ Hold(p, content[source[p]]) /\ UNCHANGED <<outcome, job, hist>>
      BY <1>8, <2>3 DEF UseRead
    <3> QED
      BY <2>1, <3>1, UseReadStep
  <2> QED
    BY <2>2, <2>3
<1>9. CASE Plan(p)
  BY <1>9, EndKeeps DEF Plan, At
<1>10. CASE WriteToken(p)
  BY <1>10, WriteTokenStep
<1>11. CASE PollRead(p)
  BY <1>11, PollReadStep
<1>12. CASE PollRemove(p)
  BY <1>12, PollRemoveStep
<1>13. CASE Lock(p)
  BY <1>13, TokenStep
<1>14. CASE Crash(p)
  BY <1>14, CrashStep
<1> QED
  BY <1>1, <1>2, <1>3, <1>4, <1>5, <1>6, <1>7, <1>8, <1>9, <1>10, <1>11, <1>12, <1>13, <1>14

\* and every step keeps it.
LEMMA NextKeeps ==
    ASSUME IInv, [Next]_vars
    PROVE  IInv'
<1>1. CASE UNCHANGED vars
  BY <1>1 DEF vars, disk, procs, job, IInv, TypeOK, StepOfCommand, WritersWrite, Undisturbed,
         SuccessIsWhole, BlockedIsAllOrNothing, LocalComesFirst, FreshIsSafe, LoadedValid, Polling,
         At
<1>2. CASE Expire
  BY <1>2, TokenStep
<1>3. CASE Plug
  BY <1>3, PlugStep
<1>4. CASE Next /\ ~Expire /\ ~Plug
  BY <1>4, ProcessStep, Zenon DEF Next
<1> QED
  BY <1>1, <1>2, <1>3, <1>4

\* The inductive invariant of commands that work on files in place: a file is
\* open to its writers, what an undisturbed command has found is still there,
\* and a fresh token is not about to be removed.
THEOREM Invariance == Spec => []IInv
<1>1. Init => IInv
  BY Start
<1>2. IInv /\ [Next]_vars => IInv'
  BY NextKeeps
<1> QED
  BY <1>1, <1>2, PTL DEF Spec

\* The variables have their types.
THEOREM TypeCorrect == Spec => []TypeOK
<1>1. IInv => TypeOK
  BY DEF IInv
<1> QED
  BY <1>1, Invariance, PTL

\* A profile reported written or copied is whole in its target, and is what
\* the command wrote, unless another wrote its files meanwhile.
THEOREM WrittenIsWhole == Spec => []SuccessIsWhole
<1>1. IInv => SuccessIsWhole
  BY DEF IInv
<1> QED
  BY <1>1, Invariance, PTL

\* A command that reports that it is blocked has left its target as it found
\* it or written all of it, unless another wrote it or the disk was full.
THEOREM RefusalIsAllOrNothing == Spec => []BlockedIsAllOrNothing
<1>1. IInv => BlockedIsAllOrNothing
  BY DEF IInv
<1> QED
  BY <1>1, Invariance, PTL

\* The profile of the recovery medium is used only in place of a local one
\* that was not to be read.
THEOREM LocalFirst == Spec => []LocalComesFirst
<1>1. IInv => LocalComesFirst
  BY DEF IInv
<1> QED
  BY <1>1, Invariance, PTL

\* A token that has not expired goes only by a lock, or by the poll that was
\* about to remove another when it was written.
THEOREM UnexpiredStays == Spec => FreshTokenStays
<1>1. ASSUME IInv, [Next]_vars, token # NoToken, token' = NoToken, token.fresh
      PROVE  token.raced \/ \E p \in Procs : "lock" \in Commands[p] /\ Lock(p)
  <2> SUFFICES ASSUME ~token.raced
               PROVE  \E p \in Procs : "lock" \in Commands[p] /\ Lock(p)
    OBVIOUS
  <2>1. \A q \in Procs : pc[q] # "expire"
    BY <1>1 DEF IInv, FreshIsSafe, Polling, At
  <2>2. token' # token
    BY <1>1
  <2>3. CASE \E p \in Procs : Lock(p)
    BY <2>3 DEF Lock, May
  <2>4. CASE \E p \in Procs : WriteToken(p)
    BY <1>1, <2>4, TokenFacts DEF WriteToken
  <2>5. CASE \E p \in Procs : PollRemove(p)
    BY <2>1, <2>5 DEF PollRemove, At
  <2>6. CASE Expire
    <3>1. token.name \in ValidNames /\ "none" \notin Names
      BY <1>1, ProfileAssumption DEF IInv, LoadedValid, Names
    <3>2. token'.name = token.name
      BY <1>1, <2>6 DEF Expire, IInv, TypeOK
    <3> QED
      BY <1>1, <3>1, <3>2, ContentFacts DEF NoToken
  <2> QED
    <3>1. CASE UNCHANGED vars \/ Plug
      BY <2>2, <3>1 DEF vars, Plug
    <3>2. ASSUME NEW p \in Procs, NEW n \in Names, NEW w \in Passphrases \cup {NoPassphrase},
                 NEW f \in Files, BeginEncrypt(p, n, w, f) \/ BeginConvert(p, n, w, f)
          PROVE  FALSE
      BY <2>2, <3>2 DEF BeginEncrypt, BeginConvert, BeginWrite
    <3>3. ASSUME NEW p \in Procs, NEW cmd \in Uses, NEW w \in Passphrases \cup {NoPassphrase},
                 BeginUse(p, cmd, w)
          PROVE  FALSE
      BY <2>2, <3>3 DEF BeginUse
    <3>4. ASSUME NEW p \in Procs,
                 \/ BeginImport(p) \/ BeginExport(p) \/ CopyRead(p) \/ Open(p) \/ Write(p)
                 \/ FindSource(p) \/ UseRead(p) \/ Plan(p) \/ PollRead(p) \/ Crash(p)
          PROVE  FALSE
      BY <2>2, <3>4 DEF BeginImport, BeginExport, BeginCopy, CopyRead, Open, Write, FindSource,
             UseRead, Plan, PollRead, Crash
    <3> QED
      BY <1>1, <2>3, <2>4, <2>5, <2>6, <3>1, <3>2, <3>3, <3>4, Zenon DEF Next
<1>2. IInv /\ [Next]_vars =>
          [ token # NoToken /\ token' = NoToken /\ token.fresh
            => token.raced \/ \E p \in Procs : "lock" \in Commands[p] /\ Lock(p) ]_vars
  BY <1>1
<1> QED
  BY <1>2, Invariance, PTL DEF Spec, FreshTokenStays

----------------------------------------------------------------------------
(* What the accepted profiles lead to *)

\* A set of naturals that is not empty has a least member.
LEMMA LeastOf ==
    ASSUME NEW T \in SUBSET Nat, T # {}
    PROVE  \E least \in T : \A t \in T : least <= t
<1> DEFINE less == OpToRel(<, Nat)
<1>1. IsWellFoundedOn(less, Nat)
  BY NatLessThanWellFounded
<1> HIDE DEF less
<1>2. PICK least \in T : \A t \in T : ~(<<t, least>> \in less)
  BY <1>1, WFMin
<1>3. \A t \in T : ~(t < least)
  BY <1>2 DEF less, OpToRel
<1> QED
  BY <1>3

\* Among the routes of an upstream file one comes first.
LEMMA FirstRouteIsOne ==
    ASSUME NEW outbounds \in Seq(DOMAIN RouteIdOf),
           NEW ids \in SUBSET TaggedRoutes(outbounds), ids # {}
    PROVE  /\ FirstRoute(outbounds, ids) \in ids
           /\ \A other \in ids \ {FirstRoute(outbounds, ids)} :
                  Before(outbounds, FirstRoute(outbounds, ids), other)
<1> DEFINE places == {i \in DOMAIN outbounds : RouteIdOf[outbounds[i]] \in ids}
<1>1. DOMAIN outbounds \subseteq Nat
  OBVIOUS
<1>2. places \in SUBSET Nat /\ places # {}
  <2>1. PICK id \in ids : TRUE
    OBVIOUS
  <2>2. PICK tag \in ToSet(outbounds) : id = RouteIdOf[tag]
    BY <2>1 DEF TaggedRoutes
  <2>3. PICK i \in DOMAIN outbounds : tag = outbounds[i]
    BY <2>2 DEF ToSet
  <2> QED
    BY <1>1, <2>1, <2>2, <2>3
<1>3. PICK i \in places : \A j \in places : i <= j
  BY <1>2, LeastOf
<1>4. ASSUME NEW other \in ids \ {RouteIdOf[outbounds[i]]}
      PROVE  Before(outbounds, RouteIdOf[outbounds[i]], other)
  <2>1. ASSUME NEW j \in 1 .. i, RouteIdOf[outbounds[j]] = other
        PROVE  FALSE
    <3>1. j \in DOMAIN outbounds
      BY <1>3
    <3>2. j \in places /\ i <= j
      BY <1>3, <2>1, <3>1
    <3> QED
      BY <1>1, <2>1, <3>2
  <2> QED
    BY <2>1 DEF Before
<1> QED
  BY <1>3, <1>4 DEF FirstRoute

\* A profile with the routes ids of an upstream file, the default region r and
\* a failover that tries a, then b.
Converted(ids, r, a, b) ==
    [version |-> SUPPORTED_VERSION,
     routes  |-> [id \in ids \cup {"failover", "lanProxy"} |->
                    CASE id = "failover" -> Failover(<<a, b>>)
                      [] id = "lanProxy" -> Route("lanProxy")
                      [] OTHER -> Route("adapter")],
     split   |-> SplitTo(r),
     ui      |-> [key \in {"defaultRegion", "regions"} |-> IF key = "regions" THEN ids ELSE r],
     secret  |-> FALSE]

\* An upstream file becomes such a profile of its own routes.
LEMMA ConversionFacts ==
    ASSUME NEW u, u.outbounds \in Seq(DOMAIN RouteIdOf), Convertible(u)
    PROVE  \E r, a, b \in TaggedRoutes(u.outbounds) :
               UpstreamToProfile(u) = Converted(TaggedRoutes(u.outbounds), r, a, b)
<1> DEFINE ids == TaggedRoutes(u.outbounds)
           first == FirstRoute(u.outbounds, ids)
           second == FirstRoute(u.outbounds, ids \ {first})
           r == IF RouteIdOf[u.final] \in ids THEN RouteIdOf[u.final] ELSE first
           order == IF ids = {first} THEN <<r, r>> ELSE <<first, second>>
<1>1. ids # {} /\ first \in ids
  BY FirstRouteIsOne DEF Convertible
<1>2. r \in ids
  BY <1>1
<1>3. ids # {first} => second \in ids
  BY <1>1, FirstRouteIsOne
<1>4. PICK a, b \in ids : order = <<a, b>>
  BY <1>1, <1>2, <1>3
<1>5. UpstreamToProfile(u) =
          [version |-> SUPPORTED_VERSION,
           routes  |-> [id \in ids \cup {"failover", "lanProxy"} |->
                          CASE id = "failover" -> Failover(order)
                            [] id = "lanProxy" -> Route("lanProxy")
                            [] OTHER -> Route("adapter")],
           split   |-> SplitTo(r),
           ui      |-> [key \in {"defaultRegion", "regions"} |->
                          IF key = "regions" THEN ids ELSE r],
           secret  |-> FALSE]
  BY Zenon DEF UpstreamToProfile
<1> HIDE DEF r, order, ids, first, second
<1>6. UpstreamToProfile(u) = Converted(ids, r, a, b)
  BY <1>4, <1>5 DEF Converted
<1>7. \E x, y, z \in ids : UpstreamToProfile(u) = Converted(ids, x, y, z)
  BY <1>2, <1>4, <1>6
<1> QED
  BY <1>7 DEF ids

\* What of such a profile matters.
PartsOf(p, ids, r, a, b) ==
    /\ DOMAIN p.routes = ids \cup {"failover", "lanProxy"}
    /\ p.routes["failover"].type = "failover" /\ p.routes["failover"].order = <<a, b>>
    /\ \A id \in DOMAIN p.routes \ {"failover"} :
          /\ p.routes[id].type \in {"lanProxy", "adapter"} /\ p.routes[id].wellFormed
          /\ p.routes[id].policy = "cn-private-direct-foreign-proxy"
    /\ p.split = SplitTo(r) /\ p.version = SUPPORTED_VERSION /\ p.secret = FALSE
    /\ DOMAIN p.ui = {"defaultRegion", "regions"}
    /\ p.ui["defaultRegion"] = r /\ p.ui["regions"] = ids
LEMMA ConvertedFacts ==
    ASSUME NEW ids, NEW r, NEW a, NEW b
    PROVE  PartsOf(Converted(ids, r, a, b), ids, r, a, b)
<1> DEFINE p == Converted(ids, r, a, b)
<1>1. \A id \in DOMAIN p.routes \ {"failover"} :
         p.routes[id] = IF id = "lanProxy" THEN Route("lanProxy") ELSE Route("adapter")
  BY DEF Converted
<1>2. p.routes["failover"] = Failover(<<a, b>>)
  BY DEF Converted
<1>3. /\ DOMAIN p.routes = ids \cup {"failover", "lanProxy"}
      /\ p.split = SplitTo(r) /\ p.version = SUPPORTED_VERSION /\ p.secret = FALSE
      /\ DOMAIN p.ui = {"defaultRegion", "regions"}
      /\ p.ui["defaultRegion"] = r /\ p.ui["regions"] = ids
  BY DEF Converted
<1>4. Failover(<<a, b>>).type = "failover" /\ Failover(<<a, b>>).order = <<a, b>>
  BY DEF Failover, Route
<1>5. \A type \in {"lanProxy", "adapter"} :
         /\ Route(type).type = type /\ Route(type).wellFormed
         /\ Route(type).policy = "cn-private-direct-foreign-proxy"
  BY DEF Route
<1> HIDE DEF p
<1>6. \A id \in DOMAIN p.routes \ {"failover"} :
         /\ p.routes[id].type \in {"lanProxy", "adapter"} /\ p.routes[id].wellFormed
         /\ p.routes[id].policy = "cn-private-direct-foreign-proxy"
  BY <1>1, <1>5
<1> QED
  BY <1>2, <1>3, <1>4, <1>6, Zenon DEF p, PartsOf

\* The split rules of profiles the program makes.
LEMMA SplitFacts ==
    ASSUME NEW r
    PROVE  /\ DOMAIN SplitTo(r) = {"policy", "domestic", "private", "foreign"}
           /\ SplitTo(r)["policy"] = "cn-private-direct-foreign-proxy"
           /\ SplitTo(r)["foreign"] = r
           /\ SplitTo(r)["domestic"] = "direct" /\ SplitTo(r)["private"] = "direct"
BY DEF SplitTo

\* Whatever an upstream file holds, what is made of it is accepted: the
\* conversion never fails on its own profile.
THEOREM ConversionIsAccepted ==
    \A n \in DOMAIN Upstreams : Convertible(Upstreams[n]) => Valid(n)
<1> SUFFICES ASSUME NEW n \in DOMAIN Upstreams, Convertible(Upstreams[n])
             PROVE  ValidateProfile(UpstreamToProfile(Upstreams[n]))
  BY ProfileAssumption DEF Valid, Plain
<1> DEFINE ids == TaggedRoutes(Upstreams[n].outbounds)
           p == UpstreamToProfile(Upstreams[n])
<1>1. PICK r, a, b \in ids : p = Converted(ids, r, a, b)
  BY ConversionFacts, ProfileAssumption
<1>2. PartsOf(p, ids, r, a, b)
  BY <1>1, ConvertedFacts
<1> HIDE DEF ids, p
<1>3. ValidRoute(p.routes["failover"], p.routes)
  <2>1. Len(<<a, b>>) = 2 /\ ToSet(<<a, b>>) = {a, b}
    BY DEF ToSet
  <2>2. a \in DOMAIN p.routes /\ b \in DOMAIN p.routes
    BY <1>2 DEF PartsOf
  <2> QED
    BY <1>2, <2>1, <2>2 DEF ValidRoute, ROUTE_TYPES, PartsOf
<1>4. \A id \in DOMAIN p.routes \ {"failover"} : ValidRoute(p.routes[id], p.routes)
  BY <1>2 DEF ValidRoute, ROUTE_TYPES, SPLIT_POLICIES, PartsOf
<1>5. ValidSplit(p.split, p.routes)
  <2>1. r \in DOMAIN p.routes
    BY <1>2 DEF PartsOf
  <2>2. \A key \in {"domestic", "private", "foreign"} : Get(SplitTo(r), key, "") \in {"direct", r}
    <3>1. {"domestic", "private", "foreign"} \subseteq DOMAIN SplitTo(r)
      BY SplitFacts
    <3>2. \A key \in {"domestic", "private", "foreign"} : Get(SplitTo(r), key, "") = SplitTo(r)[key]
      BY <3>1 DEF Get
    <3> QED
      BY <3>2, SplitFacts
  <2>3. Get(SplitTo(r), "policy", "cn-private-direct-foreign-proxy") \in SPLIT_POLICIES
    BY SplitFacts DEF Get, SPLIT_POLICIES
  <2> QED
    BY <1>2, <2>1, <2>2, <2>3 DEF ValidSplit, PartsOf
<1>6. ValidUi(p.ui, p.routes)
  BY <1>2 DEF ValidUi, Get, PartsOf
<1>7. p.routes # << >> /\ "" \notin DOMAIN p.routes
  <2>1. "" \notin ids
    BY DEF ids, TaggedRoutes
  <2>2. p.routes # << >>
    BY <1>2 DEF PartsOf
  <2>3. DOMAIN p.routes = ids \cup {"failover", "lanProxy"}
    BY <1>2 DEF PartsOf
  <2> QED
    BY <2>1, <2>2, <2>3
<1> QED
  BY <1>1, <1>2, <1>3, <1>4, <1>5, <1>6, <1>7 DEF ValidateProfile, p, PartsOf

\* A converted profile has its failover.
LEMMA ConvertedFailover ==
    ASSUME NEW n \in DOMAIN Upstreams, Convertible(Upstreams[n]),
           NEW p, p = UpstreamToProfile(Upstreams[n])
    PROVE  "failover" \in DOMAIN p.routes /\ p.routes["failover"].type = "failover"
<1>1. PICK r, a, b \in TaggedRoutes(Upstreams[n].outbounds) :
          p = Converted(TaggedRoutes(Upstreams[n].outbounds), r, a, b)
  BY ConversionFacts, ProfileAssumption
<1> DEFINE ids == TaggedRoutes(Upstreams[n].outbounds)
<1>2. PartsOf(p, ids, r, a, b)
  BY <1>1, ConvertedFacts
<1> HIDE DEF ids
<1> QED
  BY <1>2 DEF PartsOf

\* A converted profile sends every kind of target direct or to a route that
\* leads to an upstream, unless its failover names itself.
LEMMA ConvertedLeads ==
    ASSUME NEW n \in DOMAIN Upstreams, Convertible(Upstreams[n]),
           NEW kind \in {"private", "domestic", "foreign"}
    PROVE  LET p == UpstreamToProfile(Upstreams[n])
           IN  \/ Leads(p, DecideRoute(kind, p))
               \/ "failover" \in ToSet(FailoverOrder(p, "failover"))
<1> DEFINE ids == TaggedRoutes(Upstreams[n].outbounds)
           p == UpstreamToProfile(Upstreams[n])
<1>1. PICK r, a, b \in ids : p = Converted(ids, r, a, b)
  BY ConversionFacts, ProfileAssumption
<1>2. PartsOf(p, ids, r, a, b)
  BY <1>1, ConvertedFacts
<1> HIDE DEF ids, p
<1>3. DecideRoute(kind, p) \in {"direct", r}
  BY <1>2, SplitFacts DEF DecideRoute, Get, PartsOf
<1>4. FailoverOrder(p, "failover") = <<a, b>> /\ ToSet(<<a, b>>) = {a, b}
  BY <1>2 DEF FailoverOrder, ToSet, PartsOf
<1> SUFFICES ASSUME a # "failover", DecideRoute(kind, p) = r
             PROVE  Leads(p, r)
  BY <1>1, <1>3, <1>4 DEF p, Leads
<1>5. ASSUME NEW S, r \in S, \A x \in S : ToSet(FailoverOrder(p, x)) \subseteq S
      PROVE  \E x \in S \cap DOMAIN p.routes : p.routes[x].type # "failover"
  <2>1. r \in DOMAIN p.routes /\ a \in DOMAIN p.routes
    BY <1>2 DEF PartsOf
  <2>2. CASE r = "failover"
    BY <1>2, <1>4, <1>5, <2>1, <2>2 DEF PartsOf
  <2>3. CASE r # "failover"
    BY <1>2, <1>5, <2>1, <2>3 DEF PartsOf
  <2> QED
    BY <2>2, <2>3
<1> QED
  BY <1>5 DEF Leads

\* An accepted profile has the targets of its rules, but for empty ones.
LEMMA TargetFacts ==
    ASSUME NEW p, ValidateProfile(p), "foreign" \in DOMAIN p.split,
           NEW kind \in {"private", "domestic", "foreign"}
    PROVE  DecideRoute(kind, p) \in {"", "direct"} \cup DOMAIN p.routes
<1>1. \A key \in {"private", "domestic", "foreign"} \cap DOMAIN p.split :
         p.split[key] \in {"", "direct"} \cup DOMAIN p.routes
  BY DEF ValidateProfile, ValidSplit, Get
<1> QED
  BY <1>1 DEF DecideRoute, Get

\* The routes from which no failover order of an accepted profile leads out
\* are failovers that go in a circle.
LEMMA StrayedIsCircular ==
    ASSUME NEW p, ValidateProfile(p),
           \A id \in DOMAIN p.routes : p.routes[id].order \in Seq(ToSet(p.routes[id].order)),
           NEW start \in {"direct"} \cup DOMAIN p.routes
    PROVE  Leads(p, start) \/ Circular(p)
<1> SUFFICES ASSUME start # "direct",
                    NEW S, start \in S, \A r \in S : ToSet(FailoverOrder(p, r)) \subseteq S,
                    \A r \in S \cap DOMAIN p.routes : p.routes[r].type = "failover"
             PROVE  Circular(p)
  BY DEF Leads
<1> DEFINE R == S \cap DOMAIN p.routes
<1>1. \A id \in R : p.routes[id].type = "failover" /\ ToSet(p.routes[id].order) \cap R # {}
  <2> SUFFICES ASSUME NEW id \in R PROVE ToSet(p.routes[id].order) \cap R # {}
    OBVIOUS
  <2> DEFINE order == p.routes[id].order
  <2>1. ValidRoute(p.routes[id], p.routes) /\ p.routes[id].type = "failover"
    BY DEF ValidateProfile
  <2>2. Len(order) >= 2 /\ ToSet(order) \subseteq DOMAIN p.routes /\ order \in Seq(ToSet(order))
    BY <2>1 DEF ValidRoute
  <2>3. order[1] \in ToSet(order)
    BY <2>2
  <2>4. FailoverOrder(p, id) = order
    BY DEF FailoverOrder
  <2> QED
    BY <2>2, <2>3, <2>4
<1>2. R \subseteq DOMAIN p.routes /\ start \in R
  OBVIOUS
<1> QED
  BY <1>1, <1>2 DEF Circular

\* What is accepted leads somewhere, or goes in a circle.
LEMMA ValidLeads ==
    ASSUME NEW n \in ValidNames
    PROVE  n \in LeadingNames
<1> DEFINE p == Plain(n)
<1>1. ValidateProfile(p) /\ n \in Names /\ (n \in DOMAIN Upstreams => Convertible(Upstreams[n]))
  BY DEF ValidNames, Valid
<1> SUFFICES ASSUME NEW kind \in {"private", "domestic", "foreign"}
             PROVE  Sends(p, kind) \/ Circular(p)
  BY Zenon DEF LeadingNames
<1>2. CASE n \in DOMAIN Inputs
  <2>1. p = Inputs[n]
    BY <1>2 DEF Plain
  <2>2. \A id \in DOMAIN p.routes : p.routes[id].order \in Seq(ToSet(p.routes[id].order))
    BY <1>2, <2>1, ProfileAssumption
  <2> HIDE DEF p
  <2>3. CASE "foreign" \in DOMAIN p.split /\ DecideRoute(kind, p) # ""
    <3>1. DecideRoute(kind, p) \in {"direct"} \cup DOMAIN p.routes
      BY <1>1, <2>3, TargetFacts
    <3> QED
      BY <1>1, <2>2, <3>1, StrayedIsCircular DEF Sends
  <2> QED
    BY <2>3 DEF Sends
<1>3. CASE n \in DOMAIN Upstreams
  <2>1. p = UpstreamToProfile(Upstreams[n])
    BY <1>3, ProfileAssumption DEF Plain
  <2>2. ("failover" \in DOMAIN p.routes /\ p.routes["failover"].type = "failover")
    BY <1>1, <1>3, <2>1, ConvertedFailover
  <2>3. CASE Leads(p, DecideRoute(kind, p))
    BY <2>3 DEF Sends
  <2>4. CASE "failover" \in ToSet(FailoverOrder(p, "failover"))
    <3> HIDE DEF p
    <3>1. \A id \in {"failover"} :
              p.routes[id].type = "failover" /\ ToSet(p.routes[id].order) \cap {"failover"} # {}
      BY <2>2, <2>4 DEF FailoverOrder
    <3>2. {"failover"} \in SUBSET DOMAIN p.routes /\ {"failover"} # {}
      BY <2>2
    <3> QED
      BY <3>1, <3>2, Zenon DEF Circular
  <2> QED
    BY <1>1, <1>3, <2>1, <2>3, <2>4, ConvertedLeads
<1> QED
  BY <1>1, <1>2, <1>3 DEF Names

\* Every converted profile that is unlocked or started sends each kind of
\* target direct or to a route that leads to an upstream, whatever the upstream
\* file held; but for one whose failover names itself.
THEOREM ConvertedRoutesLead ==
    Spec => []( \A n \in Loaded \cap DOMAIN Upstreams :
                    \/ \A kind \in {"private", "domestic", "foreign"} :
                          Leads(Plain(n), DecideRoute(kind, Plain(n)))
                    \/ "failover" \in ToSet(FailoverOrder(Plain(n), "failover")) )
<1>1. IInv => Loaded \subseteq ValidNames
  BY DEF IInv, LoadedValid, Loaded, At
<1>2. \A n \in ValidNames \cap DOMAIN Upstreams :
          \/ \A kind \in {"private", "domestic", "foreign"} :
                Leads(Plain(n), DecideRoute(kind, Plain(n)))
          \/ "failover" \in ToSet(FailoverOrder(Plain(n), "failover"))
  <2> TAKE n \in ValidNames \cap DOMAIN Upstreams
  <2>1. Plain(n) = UpstreamToProfile(Upstreams[n]) /\ Convertible(Upstreams[n])
    BY ProfileAssumption DEF Plain, ValidNames, Valid
  <2> QED
    BY <2>1, ConvertedLeads
<1>3. IInv => \A n \in Loaded \cap DOMAIN Upstreams :
                  \/ \A kind \in {"private", "domestic", "foreign"} :
                        Leads(Plain(n), DecideRoute(kind, Plain(n)))
                  \/ "failover" \in ToSet(FailoverOrder(Plain(n), "failover"))
  BY <1>1, <1>2
<1> QED
  BY <1>3, Invariance, PTL

\* So does every hand-made one, or its rules name no route for that kind, or
\* its failovers go in a circle, which validate_profile does not look for.
THEOREM LoadedRoutesLead == Spec => []RoutesLead
<1>1. IInv => Loaded \subseteq ValidNames
  BY DEF IInv, LoadedValid, Loaded, At
<1>2. ValidNames \subseteq LeadingNames
  BY ValidLeads
<1>3. IInv => RoutesLead
  BY <1>1, <1>2 DEF RoutesLead
<1> QED
  BY <1>3, Invariance, PTL
=============================================================================
