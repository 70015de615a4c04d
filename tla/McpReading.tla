---------------------------- MODULE McpReading ----------------------------
(***************************************************************************)
(* One reading of an MCP server's tool list: McpReader.list_tools over     *)
(* HTTP (histor/mcpclient.py) and talk over a container's stdio            *)
(* (sandbox/histor_observe.py).  Both ask server/discover first, fall back *)
(* to initialize for a legacy server, and drain tools/list; talk then      *)
(* calls the tools it can, with canary arguments.                          *)
(*                                                                         *)
(* The server is external and may answer anything: Replies are the answers *)
(* the reader's code tells apart.  `ours' is the one modern revision the   *)
(* readers implement, `future' a later one, `legacy' one that opens with   *)
(* initialize.                                                             *)
(***************************************************************************)
EXTENDS Integers, Sequences

CONSTANTS MaxPages,   \* MAX_PAGES
          CallLimit   \* tools called at most (CALL_LIMIT)

ASSUME ReadingAssumption == MaxPages \in Nat \ {0} /\ CallLimit \in Nat

None == "none"
Versions == {"ours", "future", "legacy"}

VARIABLES
    transport,   \* "http" or "stdio"
    at,          \* the request being waited for: its method, or where the reading is
    modern,      \* the era of the conversation
    retried,     \* stdio: the second discovery probe
    pages,       \* numbers of the pages read, in order
    page,        \* the page its cursor asks for next
    length,      \* the server's list, in pages, as its cursors lead through it
    unanswered,  \* stdio: requests given up on that may still be answered
    calls,       \* talk: tools called, and how it went
    status,
    committed    \* history: a recognised modern error came, under our id

conversation == <<transport, at, modern, retried, pages, page, length, unanswered, calls, status, committed>>

NoCalls == [attempted |-> 0, successful |-> 0]

Idle ==
    /\ at = "idle" /\ modern = TRUE /\ retried = FALSE
    /\ pages = << >> /\ page = 1 /\ unanswered = {} /\ calls = NoCalls /\ status = None /\ committed = FALSE

ReadingInit ==
    /\ transport = "http" /\ length = 1
    /\ Idle

\* resolve_public refused the address, or robots.txt the path; or the reading starts.
StartReading(t, n) ==
    /\ at = "idle"
    /\ transport' = t /\ length' = n
    /\ \/ at' = "server/discover" /\ UNCHANGED status
       \/ t = "http" /\ at' = "done" /\ \E s \in {"blocked-address", "robots-disallowed"} : status' = s
    /\ UNCHANGED <<modern, retried, pages, page, unanswered, calls, committed>>

Stop(s) ==
    /\ at' = "done" /\ status' = s
    /\ UNCHANGED <<transport, modern, retried, pages, page, length, unanswered, calls, committed>>

-----------------------------------------------------------------------------
(* Whatever is asked, these end a reading.                                  *)
\* A rate limit, a server error, a redirect, a price.
HttpRefuses == transport = "http" /\ Stop("http-error")

\* An answer that cannot be read, is of another request, or is too long.
Malformed == Stop("protocol")
TooLarge == Stop("too-large")

\* The connection fails, the process ends.
HangsUp == Stop("gone")

Breaks ==
    /\ at \in {"server/discover", "initialize", "tools/list"}
    /\ HttpRefuses \/ Malformed \/ TooLarge \/ HangsUp

\* The deadline of one answer.  Over stdio a silent first probe reads as a legacy server.
Silence ==
    \/ at \in {"initialize", "tools/list"} /\ Stop("timeout")
    \/ at = "server/discover" /\ (transport = "http" \/ retried) /\ Stop("timeout")

-----------------------------------------------------------------------------
(* server/discover: _discover and negotiate.                                *)
GoLegacy ==
    /\ at' = "initialize" /\ modern' = FALSE /\ pages' = << >> /\ page' = 1
    /\ UNCHANGED <<transport, retried, length, calls, status>>

Modern ==
    /\ at' = "tools/list"
    /\ UNCHANGED <<transport, modern, retried, pages, page, length, unanswered, calls, status, committed>>

SilentProbe ==
    /\ at = "server/discover" /\ transport = "stdio" /\ ~retried
    /\ unanswered' = {"server/discover"}
    /\ GoLegacy /\ UNCHANGED committed

\* A 4xx or an error code of the legacy era; over stdio, any error that is not a modern one.
LegacyError ==
    /\ at = "server/discover"
    /\ IF retried THEN Stop("protocol") ELSE GoLegacy /\ UNCHANGED <<unanswered, committed>>

\* HTTP only: an answer that is not a DiscoverResult at all.
NotDiscovery ==
    /\ at = "server/discover"
    /\ IF transport = "http" THEN GoLegacy /\ UNCHANGED <<unanswered, committed>> ELSE Stop("protocol")

Discovered(versions) ==
    /\ at = "server/discover"
    /\ IF "ours" \in versions THEN Modern
       ELSE IF transport = "http" /\ "legacy" \in versions
            THEN GoLegacy /\ UNCHANGED <<unanswered, committed>>
            ELSE Stop("protocol")

\* -32020 and -32021.
ModernError ==
    /\ at = "server/discover"
    /\ at' = "done" /\ status' = "protocol" /\ committed' = TRUE
    /\ UNCHANGED <<transport, modern, retried, pages, page, length, unanswered, calls>>

\* -32022 with the versions the server has.  Over HTTP ours has been tried already, so any legacy
\* one among them decides; over stdio ours is tried once more.
Unsupported(versions) ==
    /\ at = "server/discover"
    /\ committed' = TRUE
    /\ CASE transport = "http" /\ "legacy" \in versions -> GoLegacy /\ UNCHANGED unanswered
         [] transport = "stdio" /\ "ours" \in versions /\ ~retried ->
               /\ retried' = TRUE
               /\ UNCHANGED <<transport, at, modern, pages, page, length, unanswered, calls, status>>
         [] OTHER ->
               /\ at' = "done" /\ status' = "protocol"
               /\ UNCHANGED <<transport, modern, retried, pages, page, length, unanswered, calls>>

Discover ==
    \/ SilentProbe \/ LegacyError \/ NotDiscovery \/ ModernError
    \/ \E versions \in SUBSET Versions : Discovered(versions) \/ Unsupported(versions)

-----------------------------------------------------------------------------
(* initialize, and the notification after it, which needs no answer.        *)
Initialized ==
    /\ at = "initialize"
    /\ at' = "tools/list"
    /\ UNCHANGED <<transport, modern, retried, pages, page, length, unanswered, calls, status, committed>>

(* tools/list: _drain and talk.  A cursor names the page it leads to: the    *)
(* next one of the server's list, or one that was read already; or there is  *)
(* none.                                                                     *)
Ended == IF transport = "http" THEN at' = "done" /\ status' = "ok"
                               ELSE at' = "tools/call" /\ UNCHANGED status

\* The first page is asked for without a cursor.
Followed == {pages[i] : i \in 2..Len(pages)} \cup (IF pages = << >> THEN {} ELSE {page})

\* Mutant: a cursor may come again.
FollowAgain(next) ==
    /\ page' = next
    /\ IF Len(pages) + 1 >= MaxPages THEN at' = "done" /\ status' = "partial" ELSE UNCHANGED <<at, status>>

Follow(next) ==
    /\ page' = next
    /\ IF Len(pages) + 1 >= MaxPages \/ (transport = "http" /\ next \in Followed)
       THEN at' = "done" /\ status' = "partial"
       ELSE UNCHANGED <<at, status>>

Leads == \/ page = length /\ Ended /\ UNCHANGED page
         \/ page < length /\ Follow(page + 1)
         \/ \E back \in 2..page : Follow(back)

\* Mutant: only the last page is kept, so none are counted.
PageUncounted ==
    /\ at = "tools/list" /\ pages' = <<page>> /\ Leads
    /\ UNCHANGED <<transport, modern, retried, length, unanswered, calls, committed>>

Page ==
    /\ at = "tools/list" /\ pages' = Append(pages, page) /\ Leads
    /\ UNCHANGED <<transport, modern, retried, length, unanswered, calls, committed>>

\* input_required, or a cache scope that changed between pages.
Incomplete ==
    /\ at = "tools/list"
    /\ Stop(IF transport = "http" THEN "partial" ELSE "protocol")

\* HTTP: only the first modern page may still turn out to be a legacy server's refusal.
FirstPageRefused ==
    /\ at = "tools/list" /\ transport = "http" /\ modern /\ pages = << >>
    /\ GoLegacy /\ UNCHANGED <<unanswered, committed>>

-----------------------------------------------------------------------------
(* tools/call, over stdio: every tool within the limit, one after another.  *)
Called(outcome) ==
    /\ at = "tools/call" /\ calls.attempted < CallLimit
    /\ calls' = [attempted |-> calls.attempted + 1,
                 successful |-> calls.successful + (IF outcome = "success" THEN 1 ELSE 0)]
    /\ unanswered' = IF outcome = "timeout" THEN unanswered \cup {"tools/call"} ELSE unanswered
    /\ UNCHANGED <<transport, at, modern, retried, pages, page, length, status, committed>>

\* All called, or the process ended; the list stands.
CallsEnd ==
    /\ at = "tools/call"
    /\ at' = "done" /\ status' = "ok"
    /\ UNCHANGED <<transport, modern, retried, pages, page, length, unanswered, calls, committed>>

\* An answer to a request given up on arrives while another is waited for: a modern session takes
\* it for a protocol failure, a legacy one passes over it.
LateAnswer(method) ==
    /\ at \in {"initialize", "tools/list", "tools/call"} /\ method \in unanswered
    /\ at = "tools/call" => calls.attempted < CallLimit
    /\ IF modern
       THEN at' = "done" /\ status' = "protocol"
       ELSE UNCHANGED <<at, status>>
    /\ unanswered' = unanswered \ {method}
    /\ UNCHANGED <<transport, modern, retried, pages, page, length, calls, committed>>

Converse ==
    \/ Breaks \/ Silence \/ Discover \/ Initialized
    \/ Page \/ Incomplete \/ FirstPageRefused
    \/ \E outcome \in {"success", "error", "timeout", "skipped"} : Called(outcome)
    \/ CallsEnd
    \/ \E method \in unanswered : LateAnswer(method)

=============================================================================
