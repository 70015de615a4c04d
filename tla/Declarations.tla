---------------------------- MODULE Declarations ----------------------------
(***************************************************************************)
(* What a publisher declares beyond what was observed (histor/declared.py, *)
(* histor/cards.py and their half of store.py): tool sets named in the     *)
(* server's registry entry, in a file on the publisher's own domain that   *)
(* the entry points at, or in the server card of the endpoint.             *)
(*                                                                         *)
(* One target and one set it may declare.  The crawl's sync reads the      *)
(* entry and the file; an hourly pass reads the file again and, once a     *)
(* day, the card.  The publisher is external: any read may find the set,   *)
(* find the source without it, or fail.                                    *)
(***************************************************************************)
EXTENDS Integers

Nothing == "nothing"

VARIABLES
    declared,    \* declared_toolsets: the source the set is active under, or Nothing
    file,        \* declaration_urls: how the last read of the file went, Nothing without a row
    refreshing,  \* the hourly pass has taken its rows and reads the files
    entry        \* history: what the entry said at the last sync

declarations == <<declared, file, refreshing, entry>>

\* parse_file, fetch: "error" is every DeclarationError.
FileReads == {"set", "other", "error"}

DeclarationsInit ==
    /\ declared = Nothing /\ file = Nothing /\ refreshing = FALSE
    /\ entry = [set |-> FALSE, url |-> FALSE]

\* Mutant: a source that was not read counts as one that does not name the set.
ApplyUnread(registry, url) ==
    declared' = CASE registry = "set" -> "registry"
                  [] registry # "set" /\ url = "set" -> "url"
                  [] OTHER -> IF declared = "card" THEN declared ELSE Nothing

\* _apply_declaration: a source that was not asked ("unasked") or not read ("error") leaves its own.
ApplyDeclaration(registry, url) ==
    LET keep == \/ declared = "url" /\ url = "error"
                \/ declared = "registry" /\ registry = "unasked"
    IN  declared' = CASE keep -> declared
                      [] ~keep /\ registry = "set" -> "registry"
                      [] ~keep /\ registry # "set" /\ url = "set" -> "url"
                      [] OTHER -> IF declared = "card" THEN declared ELSE Nothing

NoteRead(read) == file' = IF read = "error" THEN "error" ELSE "ok"

\* sync_declarations, for a target of this harvest: its entry lists the set or not, and points at a
\* file on the domain the registry verified, or not.
Sync(lists, points, read) ==
    /\ entry' = [set |-> lists, url |-> points]
    /\ IF points THEN NoteRead(read) ELSE file' = Nothing
    /\ ApplyDeclaration(IF lists THEN "set" ELSE "other", IF points THEN read ELSE "other")
    /\ UNCHANGED refreshing

\* refresh_declarations: the rows, then the files, then one transaction.
RefreshStarts ==
    /\ ~refreshing /\ file # Nothing
    /\ refreshing' = TRUE
    /\ UNCHANGED <<declared, file, entry>>

RefreshApplies(read) ==
    /\ refreshing /\ refreshing' = FALSE
    /\ NoteRead(read)
    /\ ApplyDeclaration("unasked", read)
    /\ UNCHANGED entry

\* apply_cards: of the verdicts only DECISIVE ones count.
CardRead(verdict) ==
    /\ declared' = CASE verdict = "set" /\ declared = Nothing -> "card"
                     [] verdict = "other" /\ declared = "card" -> Nothing
                     [] OTHER -> declared
    /\ UNCHANGED <<file, refreshing, entry>>

Declaring ==
    \/ \E lists, points \in BOOLEAN, read \in FileReads : Sync(lists, points, read)
    \/ RefreshStarts
    \/ \E read \in FileReads : RefreshApplies(read) \/ CardRead(read)

-----------------------------------------------------------------------------
\* "A file that could not be read this time is not a withdrawal", nor is a source that was not
\* asked: a set is only withdrawn by a read of the source it stands under that did not find it.
WithdrawnOnlyWhenRead ==
    [][declared' = Nothing =>
          /\ declared = "url" => file' # "error"
          /\ declared = "registry" => ~entry'.set]_declarations

\* What the registry entry lists stands until the entry is read again.
RegistrySetsStand == entry.set => declared # Nothing

\* "The entry no longer points at a file: what the file declared goes with it."
UnpointedFilesAreForgotten == file # Nothing => entry.url

=============================================================================
