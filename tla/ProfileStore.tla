----------------------------- MODULE ProfileStore -----------------------------
(***************************************************************************)
(* The encrypted profile of the agent: agent/profile_crypto.py, the        *)
(* profile and unlock commands of agent/gateway_agent.py, and the unlock   *)
(* token of agent/unlock_server.py.                                        *)
(*                                                                         *)
(* A process is a command line call or a request to the local API.  Files  *)
(* are written in place: opening one empties it, and what two writers      *)
(* leave in it together can be what either wrote, no JSON, or an envelope  *)
(* whose ciphertext nobody wrote.  A file is read by one system call, and  *)
(* AES-GCM tells any ciphertext that was not written with the passphrase.  *)
(* The file "local" is the configured profile, "usb" that of the recovery  *)
(* medium, which comes and goes; one is imported from and exported to the  *)
(* other.                                                                  *)
(***************************************************************************)
EXTENDS ProfileSchema

CONSTANTS
    Procs,
    Commands,     \* from processes to the commands they may run
    Inputs,       \* from names to the plain profiles one may encrypt
    Upstreams,    \* from names to the upstream files one may convert
    Passphrases,
    NoPassphrase, \* an empty one
    MaxCrashes    \* bound: commands that are cut short

Files == {"local", "usb"}
CommandNames == {"write", "copy", "unlock", "api_unlock", "start", "poll", "lock"}
Uses == {"unlock", "api_unlock", "start"}  \* the commands that read a profile

ASSUME ProfileAssumption ==
    /\ Commands \in [Procs -> SUBSET CommandNames]
    /\ DOMAIN Inputs \cap DOMAIN Upstreams = {}
    /\ "none" \notin DOMAIN Inputs \cup DOMAIN Upstreams  \* the name of no token
    /\ \A n \in DOMAIN Inputs : \A id \in DOMAIN Inputs[n].routes :  \* orders are lists,
          Inputs[n].routes[id].order \in Seq(ToSet(Inputs[n].routes[id].order))
    /\ \A n \in DOMAIN Upstreams :                                  \* and so are outbounds
          Upstreams[n].outbounds \in Seq(DOMAIN RouteIdOf)
    /\ NoPassphrase \notin Passphrases
    /\ MaxCrashes \in Nat

VARIABLES
    content,  \* of each file
    writers,  \* of each file: the processes that have it open to write
    alone,    \* the writers nobody opened the same file beside
    token,    \* the unlock token
    \* of each process
    command, pc, outcome,         \* what it runs, its next step, what it reported
    source, target, held, phrase, \* what it works on and has in hand
    hist,     \* of each process: what its outcome is measured against
    crashes

disk  == <<content, writers, alone>>
job   == <<command, source, target, phrase>>
procs == <<pc, outcome, job, held>>
vars  == <<disk, token, procs, hist, crashes>>

Names == DOMAIN Inputs \cup DOMAIN Upstreams

\* The plain profile of a name.
Plain(n) == IF n \in DOMAIN Inputs THEN Inputs[n] ELSE UpstreamToProfile(Upstreams[n])

\* It can be had, and is one the agent accepts.
Valid(n) ==
    /\ n \in DOMAIN Upstreams => Convertible(Upstreams[n])
    /\ ValidateProfile(Plain(n))

ValidNames == {n \in Names : Valid(n)}

Missing == [kind |-> "missing"]
NoJson  == [kind |-> "nojson"]   \* empty, cut short or no JSON
Mixed   == [kind |-> "mixed"]    \* an envelope that does not decrypt
Envelope(n, pass) == [kind |-> "whole", name |-> n, pass |-> pass]
Contents == {Missing, NoJson, Mixed} \cup {Envelope(n, w) : n \in Names, w \in Passphrases}

NoToken == [name |-> "none", fresh |-> FALSE, raced |-> FALSE]
NoHist  == [clean |-> FALSE, before |-> Missing]

\* encrypted_profile_status: _validate_envelope looks at the header only.
Present(c) == c.kind \in {"whole", "mixed"}

\* decrypt_profile
Decrypts(c, pass) ==
    c.kind = "whole" /\ c.pass = pass /\ pass # NoPassphrase /\ c.name \in ValidNames

\* What a file or a medium holds that the commands have not touched.
Found == {Missing} \cup {Envelope(n, w) : n \in DOMAIN Inputs \cap ValidNames, w \in Passphrases}

----------------------------------------------------------------------------
Init ==
    /\ content \in [Files -> Found]
    /\ writers = [f \in Files |-> {}]
    /\ alone = {}
    /\ token = NoToken
    /\ command = [p \in Procs |-> "none"]
    /\ pc = [p \in Procs |-> "done"]
    /\ outcome = [p \in Procs |-> "none"]
    /\ source = [p \in Procs |-> "local"]
    /\ target = [p \in Procs |-> "local"]
    /\ held = [p \in Procs |-> Missing]
    /\ phrase = [p \in Procs |-> NoPassphrase]
    /\ hist = [p \in Procs |-> NoHist]
    /\ crashes = 0

May(p, cmd) == pc[p] = "done" /\ cmd \in Commands[p]
At(p, label) == pc[p] = label
Goto(p, label) == pc' = [pc EXCEPT ![p] = label]
Hold(p, c) == held' = [held EXCEPT ![p] = c]

Begin(p, cmd, from, to, c, pass) ==
    /\ command' = [command EXCEPT ![p] = cmd]
    /\ source' = [source EXCEPT ![p] = from]
    /\ target' = [target EXCEPT ![p] = to]
    /\ phrase' = [phrase EXCEPT ![p] = pass]
    /\ Hold(p, c)

Proceed(p, label) == Goto(p, label) /\ outcome' = [outcome EXCEPT ![p] = "none"]
Answer(p, report) == Goto(p, "done") /\ outcome' = [outcome EXCEPT ![p] = report]
\* The command of p ends with a report about its target,
Report(p, report) == Answer(p, report) /\ UNCHANGED <<job, held>>
\* or with none that is looked at here.
Forget(p) == Answer(p, "none") /\ Begin(p, "none", "local", "local", Missing, NoPassphrase)
Finish(p) == Forget(p) /\ hist' = [hist EXCEPT ![p] = NoHist]

\* What the outcome of a command on files S is measured against; a file that
\* is being written at the start is no measure.
Begun(S, before) ==
    IF \A f \in S : writers[f] = {} THEN [clean |-> TRUE, before |-> before] ELSE NoHist

\* p changes file f: others that use it, or have, are disturbed.
FilesOf(q) == IF command[q] = "copy" THEN {source[q], target[q]}
              ELSE IF command[q] = "write" THEN {target[q]}
              ELSE IF command[q] \in Uses THEN {"local"} ELSE {}
Disturb(p, f, own) ==
    hist' = [q \in Procs |-> IF q = p THEN own ELSE IF f \in FilesOf(q) THEN NoHist ELSE hist[q]]

----------------------------------------------------------------------------
(* profile-encrypt and profile-from-upstream *)

\* Nothing is opened for a profile that is not valid, an upstream file
\* without tagged outbounds, or an empty passphrase.
BeginWrite(p, n, pass, f) ==
    /\ May(p, "write")
    /\ IF n \in ValidNames /\ pass # NoPassphrase
       THEN Begin(p, "write", f, f, Envelope(n, pass), NoPassphrase) /\ Proceed(p, "open")
       ELSE Begin(p, "write", f, f, Missing, NoPassphrase) /\ Answer(p, "blocked")
    /\ hist' = [hist EXCEPT ![p] = Begun({f}, content[f])]
    /\ UNCHANGED <<disk, token, crashes>>

BeginEncrypt(p, n, pass, f) == n \in DOMAIN Inputs /\ BeginWrite(p, n, pass, f)
BeginConvert(p, n, pass, f) == n \in DOMAIN Upstreams /\ BeginWrite(p, n, pass, f)

(* profile-import and profile-export: copy_encrypted_profile *)

\* The copy opens its target whatever its source is.
BeginCopy_Unchecked(p, from, to) ==
    /\ May(p, "copy")
    /\ Begin(p, "copy", from, to, Missing, NoPassphrase) /\ Proceed(p, "read")
    /\ hist' = [hist EXCEPT ![p] = Begun({from, to}, content[to])]
    /\ UNCHANGED <<disk, token, crashes>>

BeginCopy(p, from, to) ==
    /\ May(p, "copy")
    /\ Begin(p, "copy", from, to, Missing, NoPassphrase)
    /\ IF Present(content[from]) THEN Proceed(p, "read") ELSE Answer(p, "blocked")
    /\ hist' = [hist EXCEPT ![p] = Begun({from, to}, content[to])]
    /\ UNCHANGED <<disk, token, crashes>>

BeginImport(p) == BeginCopy(p, "usb", "local")
BeginExport(p) == BeginCopy(p, "local", "usb")

\* The target is emptied before the source is read.
CopyRead_OpensFirst(p) ==
    /\ At(p, "read") /\ command[p] = "copy"
    /\ LET c == content[source[p]]
       IN  IF c = Missing THEN Report(p, "blocked")
           ELSE Goto(p, "open") /\ Hold(p, c) /\ UNCHANGED <<outcome, job>>
    /\ content' = [content EXCEPT ![target[p]] = NoJson]
    /\ UNCHANGED <<writers, alone, token, hist, crashes>>

\* The source is read again, and not looked at again.
CopyRead(p) ==
    /\ At(p, "read") /\ command[p] = "copy"
    /\ LET c == content[source[p]]
       IN  IF c = Missing THEN Report(p, "blocked")
           ELSE Goto(p, "open") /\ Hold(p, c) /\ UNCHANGED <<outcome, job>>
    /\ UNCHANGED <<disk, token, hist, crashes>>

(* write_text, for all of them *)

\* A refusal by the file system is reported, but by profile-encrypt, which
\* does not catch it.
Refused(p) ==
    IF command[p] = "write" /\ held[p].name \in DOMAIN Inputs
    THEN Forget(p) ELSE Report(p, "blocked")

\* Opening empties the file, or is refused.
Open(p) ==
    /\ At(p, "open")
    /\ LET f == target[p] IN
       \/ /\ content' = [content EXCEPT ![f] = NoJson]
          /\ writers' = [writers EXCEPT ![f] = @ \cup {p}]
          /\ alone' = IF writers[f] = {} THEN alone \cup {p} ELSE alone \ writers[f]
          /\ Disturb(p, f, hist[p])
          /\ Goto(p, "write") /\ UNCHANGED <<outcome, job, held>>
       \/ Refused(p) /\ UNCHANGED <<disk, hist>>
    /\ UNCHANGED <<token, crashes>>

\* A file that was written is never closed.
Write_StaysOpen(p) ==
    /\ At(p, "write")
    /\ LET f == target[p] IN
       /\ \/ /\ IF p \in alone THEN content' = [content EXCEPT ![f] = held[p]]
                ELSE \E c \in {held[p], NoJson, Mixed} : content' = [content EXCEPT ![f] = c]
             /\ Report(p, "ok")
             /\ Disturb(p, f, hist[p])
          \/ /\ content' = [content EXCEPT ![f] = NoJson]
             /\ Refused(p)
             /\ Disturb(p, f, NoHist)
       /\ writers' = [writers EXCEPT ![f] = @]
       /\ alone' = alone \ {p}
    /\ UNCHANGED <<token, crashes>>

\* The text is in the file, and the chmod that follows may be refused; or the
\* disk is full.
Write(p) ==
    /\ At(p, "write")
    /\ LET f == target[p] IN
       /\ \/ /\ IF p \in alone THEN content' = [content EXCEPT ![f] = held[p]]
                ELSE \E c \in {held[p], NoJson, Mixed} : content' = [content EXCEPT ![f] = c]
             /\ Report(p, "ok") \/ Refused(p)
             /\ Disturb(p, f, hist[p])
          \/ /\ content' = [content EXCEPT ![f] = NoJson]
             /\ Refused(p)
             /\ Disturb(p, f, NoHist)
       /\ writers' = [writers EXCEPT ![f] = @ \ {p}]
       /\ alone' = alone \ {p}
    /\ UNCHANGED <<token, crashes>>

----------------------------------------------------------------------------
(* unlock and runtime-start *)

\* The source profile_source_status finds: the local profile, then the one
\* of the medium.
Sources_UsbFirst ==
    IF content["usb"] # Missing THEN {"usb"}
    ELSE IF Present(content["local"]) THEN {"local"} ELSE {}

Sources ==
    IF Present(content["local"]) THEN {"local"}
    ELSE IF content["usb"] # Missing THEN {"usb"} ELSE {}

\* unlock looks whether there is a local profile; if there is it looks again
\* for the source it uses, as runtime-start does.  The API unlocks the profile
\* of the medium.
BeginUse(p, cmd, pass) ==
    /\ May(p, cmd) /\ cmd \in Uses
    /\ IF cmd = "api_unlock" \/ (cmd = "unlock" /\ Sources # {"local"})
       THEN Begin(p, cmd, "usb", "local", Missing, pass) /\ Proceed(p, "read")
       ELSE Begin(p, cmd, "local", "local", Missing, pass) /\ Proceed(p, "status")
    /\ hist' = [hist EXCEPT ![p] =
            IF Present(content["local"]) THEN Begun({"local"}, Missing) ELSE NoHist]
    /\ UNCHANGED <<disk, token, crashes>>

FindSource(p) ==
    /\ At(p, "status")
    /\ \/ /\ \E f \in Sources : source' = [source EXCEPT ![p] = f]
          /\ Goto(p, "read")
          /\ UNCHANGED <<command, outcome, target, held, phrase, hist>>
       \/ Sources = {} /\ Finish(p)
    /\ UNCHANGED <<disk, token, crashes>>

\* read_encrypted_profile
UseRead(p) ==
    /\ At(p, "read") /\ command[p] \in Uses
    /\ LET c == content[source[p]]
       IN  \/ /\ Decrypts(c, phrase[p])
              /\ Goto(p, IF command[p] = "start" THEN "plan" ELSE "token") /\ Hold(p, c)
              /\ UNCHANGED <<outcome, job, hist>>
           \/ ~Decrypts(c, phrase[p]) /\ Finish(p)
    /\ UNCHANGED <<disk, token, crashes>>

\* runtime-start has the profile of its plan.
Plan(p) ==
    /\ At(p, "plan") /\ Finish(p)
    /\ UNCHANGED <<disk, token, crashes>>

\* A status poll is about to remove a token it read before.
Polling == \E q \in Procs : At(q, "expire")

WriteToken(p) ==
    /\ At(p, "token")
    /\ token' = [name |-> held[p].name, fresh |-> TRUE, raced |-> Polling]
    /\ Finish(p)
    /\ UNCHANGED <<disk, crashes>>

(* unlock_status, in every status report; lock *)

Expired == token # NoToken /\ ~token.fresh

\* A token is dropped whether or not it has expired.
PollRead_Any(p) ==
    /\ May(p, "poll") /\ token # NoToken
    /\ Begin(p, "poll", "local", "local", Missing, NoPassphrase) /\ Proceed(p, "expire")
    /\ UNCHANGED <<disk, token, hist, crashes>>

PollRead(p) ==
    /\ May(p, "poll") /\ Expired
    /\ Begin(p, "poll", "local", "local", Missing, NoPassphrase) /\ Proceed(p, "expire")
    /\ UNCHANGED <<disk, token, hist, crashes>>

\* Whatever token there is by now goes.
PollRemove(p) ==
    /\ At(p, "expire")
    /\ token' = NoToken
    /\ Finish(p)
    /\ UNCHANGED <<disk, crashes>>

Lock(p) ==
    /\ May(p, "lock") /\ token # NoToken
    /\ token' = NoToken
    /\ UNCHANGED <<disk, procs, hist, crashes>>

----------------------------------------------------------------------------
(* The world *)

Expire ==
    /\ token # NoToken /\ token.fresh
    /\ token' = [token EXCEPT !.fresh = FALSE]
    /\ UNCHANGED <<disk, procs, hist, crashes>>

\* The medium is pulled out, or one with some profile is put in.
Plug ==
    /\ writers["usb"] = {}
    /\ \E c \in Found \ {content["usb"]} : content' = [content EXCEPT !["usb"] = c]
    /\ hist' = [q \in Procs |-> IF "usb" \in FilesOf(q) THEN NoHist ELSE hist[q]]
    /\ UNCHANGED <<writers, alone, token, procs, crashes>>

\* A command is cut short: a file it had opened stays as it is.
Crash(p) ==
    /\ pc[p] # "done" /\ crashes < MaxCrashes
    /\ crashes' = crashes + 1
    /\ writers' = [f \in Files |-> writers[f] \ {p}]
    /\ alone' = alone \ {p}
    /\ Finish(p)
    /\ UNCHANGED <<content, token>>

Next ==
    \/ Expire \/ Plug
    \/ \E p \in Procs :
        \/ \E n \in Names, w \in Passphrases \cup {NoPassphrase}, f \in Files :
              BeginEncrypt(p, n, w, f) \/ BeginConvert(p, n, w, f)
        \/ BeginImport(p) \/ BeginExport(p)
        \/ CopyRead(p) \/ Open(p) \/ Write(p)
        \/ \E cmd \in Uses, w \in Passphrases \cup {NoPassphrase} : BeginUse(p, cmd, w)
        \/ FindSource(p) \/ UseRead(p) \/ Plan(p) \/ WriteToken(p)
        \/ PollRead(p) \/ PollRemove(p) \/ Lock(p) \/ Crash(p)

Spec == Init /\ [][Next]_vars

----------------------------------------------------------------------------
(* Properties *)

TypeOK ==
    /\ content \in [Files -> Contents]
    /\ writers \in [Files -> SUBSET Procs]
    /\ alone \in SUBSET Procs
    /\ token \in [name : Names \cup {"none"}, fresh : BOOLEAN, raced : BOOLEAN]
    /\ command \in [Procs -> CommandNames \cup {"none"}]
    /\ pc \in [Procs -> {"done", "read", "open", "write", "status", "token", "plan", "expire"}]
    /\ outcome \in [Procs -> {"none", "ok", "blocked"}]
    /\ source \in [Procs -> Files] /\ target \in [Procs -> Files]
    /\ held \in [Procs -> Contents]
    /\ phrase \in [Procs -> Passphrases \cup {NoPassphrase}]
    /\ hist \in [Procs -> [clean : BOOLEAN, before : Contents]]
    /\ crashes \in 0 .. MaxCrashes

\* A command that reports its profile written or copied has left what it
\* wrote, and a profile's envelope, in its target, unless another command
\* wrote its source or target meanwhile.
SuccessIsWhole ==
    \A p \in Procs :
        command[p] \in {"write", "copy"} /\ outcome[p] = "ok" /\ hist[p].clean =>
            content[target[p]] = held[p] /\ Present(held[p])

\* A command that reports that it is blocked has left its target as it found
\* it, or written all of it, as one does whose chmod is refused afterwards;
\* never half of it, unless another wrote it meanwhile or the disk was full:
\* what the command itself refuses it refuses before anything is opened.
BlockedIsAllOrNothing ==
    \A p \in Procs :
        command[p] \in {"write", "copy"} /\ outcome[p] = "blocked" /\ hist[p].clean =>
            \/ content[target[p]] = hist[p].before
            \/ content[target[p]] = held[p] /\ Present(held[p])

\* The profile of the recovery medium is used only when the local one was not
\* to be read at some moment of the command, be it because it was being
\* written.
LocalComesFirst ==
    \A p \in Procs :
        command[p] \in {"unlock", "start"} /\ pc[p] \in {"read", "token", "plan"} /\ hist[p].clean =>
            source[p] = "local"

\* A token that has not expired goes only by a lock, unless a poll that had
\* seen an expired one was about to remove it when the unlock wrote it.
FreshTokenStays ==
    [][ token # NoToken /\ token' = NoToken /\ token.fresh
        => token.raced \/ \E p \in Procs : "lock" \in Commands[p] /\ Lock(p) ]_vars

\* Every profile that is unlocked or started, hand-made or converted from any
\* upstream file, sends each kind of target direct or to a route that leads to
\* an upstream; but for a kind its rules name no route for, and for profiles
\* with failovers that go in a circle, which validate_profile does not look for.
LeadingNames ==
    {n \in ValidNames :
        \/ \A kind \in {"private", "domestic", "foreign"} : Sends(Plain(n), kind)
        \/ Circular(Plain(n))}

Loaded ==
    {held[p].name : p \in {q \in Procs : At(q, "token") \/ At(q, "plan")}}
    \cup (IF token = NoToken THEN {} ELSE {token.name})

RoutesLead == Loaded \subseteq LeadingNames

----------------------------------------------------------------------------
(* The inductive invariant *)

\* Which command is at which step.
StepOfCommand == \A p \in Procs :
    /\ pc[p] \in {"open", "write"} => command[p] \in {"write", "copy"}
    /\ pc[p] = "read" => command[p] \in {"copy"} \cup Uses
    /\ pc[p] \in {"status", "token", "plan"} => command[p] \in Uses
    /\ outcome[p] # "none" => pc[p] = "done"

\* A file is open to those who are about to write it, and a writer is alone
\* when nobody else has it open.
WritersWrite ==
    /\ \A f \in Files, p \in Procs : p \in writers[f] <=> At(p, "write") /\ target[p] = f
    /\ \A p \in alone : writers[target[p]] = {p}

\* What a command that nobody disturbed has found is still there.
Undisturbed == \A p \in Procs : hist[p].clean =>
    /\ command[p] \in {"write", "copy"} /\ pc[p] \in {"read", "open"} =>
          writers[target[p]] = {} /\ content[target[p]] = hist[p].before
    /\ pc[p] = "write" => p \in alone
    /\ command[p] = "copy" /\ pc[p] = "read" => Present(content[source[p]])
    /\ pc[p] \in {"open", "write"} => Present(held[p])
    /\ command[p] \in Uses /\ pc[p] = "status" => Present(content["local"])

\* A fresh token is not about to be removed, unless it is known to be raced.
FreshIsSafe == token.fresh /\ ~token.raced => ~Polling

\* What is loaded was accepted.
LoadedValid ==
    /\ \A p \in Procs : pc[p] \in {"token", "plan"} => held[p].name \in ValidNames
    /\ token # NoToken => token.name \in ValidNames

IInv ==
    /\ TypeOK /\ StepOfCommand /\ WritersWrite /\ Undisturbed
    /\ SuccessIsWhole /\ BlockedIsAllOrNothing /\ LocalComesFirst
    /\ FreshIsSafe /\ LoadedValid
=============================================================================
