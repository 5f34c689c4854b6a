---- MODULE Backends ----
(***************************************************************************)
(* The backend of a connection, as openBackend (connection/backend.go)     *)
(* chooses it: FTP, SFTP or WebDAV, behind one vfs.Backend interface. The  *)
(* three are checked together, against one promise to their callers.       *)
(***************************************************************************)
EXTENDS BackendCalls

VARIABLES
    protocol,                 \* config.Profile.Protocol
    needsProbe, last, spent,  \* FtpBackend
    generation                \* SftpBackend

vars == <<callVars, lock, connectionVars, protocol, needsProbe, last, spent, generation>>

Ftp == INSTANCE FtpBackend
Sftp == INSTANCE SftpBackend
Webdav == INSTANCE WebdavBackend

NoFtp == needsProbe = FALSE /\ last = "ok" /\ spent = {}

openBackend ==
    \/ protocol = "ftp" /\ Ftp!Init /\ generation = 0
    \/ protocol = "sftp" /\ Sftp!Init /\ NoFtp
    \/ protocol = "webdav" /\ Webdav!Init /\ NoFtp /\ generation = 0

Next ==
    /\ UNCHANGED protocol
    /\ \/ protocol = "ftp" /\ Ftp!Next /\ UNCHANGED generation
       \/ protocol = "sftp" /\ Sftp!Next /\ UNCHANGED <<needsProbe, last, spent>>
       \/ protocol = "webdav" /\ Webdav!Next /\ UNCHANGED <<needsProbe, last, spent, generation>>

\* A call goes on by itself: the network answers or reports an error (TCP
\* keep-alive, the HTTP time limit), and callers close their readers.
Advance(p) ==
    /\ UNCHANGED protocol
    /\ \/ protocol = "ftp" /\ Ftp!Advance(p) /\ UNCHANGED generation
       \/ protocol = "sftp" /\ Sftp!Advance(p) /\ UNCHANGED <<needsProbe, last, spent>>
       \/ protocol = "webdav" /\ Webdav!Advance(p) /\ UNCHANGED <<needsProbe, last, spent, generation>>

\* Go's mutexes do not starve a goroutine that waits.
Wait(p) ==
    /\ UNCHANGED protocol
    /\ \/ protocol = "ftp" /\ Ftp!Wait(p) /\ UNCHANGED generation
       \/ protocol = "sftp" /\ Sftp!Wait(p) /\ UNCHANGED <<needsProbe, last, spent>>

Spec == openBackend /\ [][Next]_vars
FairSpec == Spec /\ \A p \in Proc : WF_vars(Advance(p)) /\ SF_vars(Wait(p))

-----------------------------------------------------------------------------
(* Properties.                                                             *)

\* Every variable holds a value of its kind; a goroutine without a call has no
\* request under way, and a handle is being opened or closed only by a call.
TypeOK ==
    /\ call \in [Proc -> Call] /\ handle \in [Proc -> Handle]
    /\ lock \in Proc \union {None} /\ closed \in BOOLEAN /\ generation \in Nat
    /\ open \subseteq Connection /\ broken \subseteq open /\ client \in Connection \union {0}
    /\ protocol \in {"ftp", "sftp", "webdav"} /\ needsProbe \in BOOLEAN
    /\ last \in {"ok", "transfer", "error"} /\ spent \subseteq Proc
    /\ \A p \in Proc : /\ At(p, "idle") <=> call[p].op = "none"
                       /\ handle[p].st = "opening" => call[p].op \in {"stat", "read"}
                       /\ handle[p].st = "closing" => call[p].op = "stor"

PhaseOf(p) ==
    LET c == call[p] IN
    CASE c.op \in {"change", "lock"} -> "change"
      [] c.op = "stor" -> "upload"
      [] OTHER -> c.result

Promise == INSTANCE RemoteCalls WITH
    limit <- IF protocol = "sftp" THEN 2 ELSE 1,
    phase <- [p \in Proc |-> PhaseOf(p)],
    times <- [p \in Proc |-> call[p].times],
    done <- [p \in Proc |-> call[p].op # "stor" /\ call[p].times > 0],
    stored <- [p \in Proc |-> handle[p].stored]

\* withClient, syncLocked, withReconnect, do: a change or an upload that reports
\* success was executed by the server, through lost replies, reconnects and
\* failed earlier uploads of the handle; FTP and WebDAV have it executed at most
\* once per call, SFTP, which repeats it, at most twice.
CallsKeepPromise == Promise!Spec

\* reconnectLocked, reconnect, Close: outside a reconnect the program keeps the
\* current connection and no other, and none once the backend is closed, even
\* when goroutines were about to reconnect.
NoConnectionLeft ==
    protocol # "webdav" /\ lock = None => open = IF closed THEN {} ELSE {client}

\* reconnect, reconnectLocked: a connection on which no goroutine has seen an
\* error is closed only by Close: one failure, seen by many, costs one reconnect.
HealthyConnectionKept ==
    [][\A c \in open \ open' : c \in broken \/ closed']_vars

\* lock, lockedReadCloser: see FtpBackend.
ControlConnectionReady == protocol = "ftp" => Ftp!ControlConnectionReady

\* Every call returns: no goroutine keeps the mutex for ever, none waits for one
\* that waits for it, and no call reconnects without end.
CallReturns == \A p \in Proc : ~At(p, "idle") ~> At(p, "idle")
====
