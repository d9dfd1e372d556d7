---------------------------- MODULE HistoryLayout ----------------------------
(***************************************************************************)
(* Where an agent's conversations are: in its cache, which keeps the most   *)
(* recently used ones (agent/history_store.py), in a directory with a file  *)
(* for each, and, until the first flush has migrated it, in the legacy file *)
(* that older versions wrote.  The cockpit's pages read both layouts while  *)
(* the bot is writing (cockpit/deployment_chat.py).                         *)
(*                                                                          *)
(* A conversation's messages are the number of its last change, 0 if there  *)
(* are none.  HistoryFlush has what is left out here: the debounce,         *)
(* shutdown with its abandoned thread, and unlinks that fail.               *)
(***************************************************************************)
EXTENDS Naturals, Sequences, FiniteSets

CONSTANTS
    Conversation,
    MaxConversations,  \* agent_max_conversations
    MaxChanges,        \* bound on changes and clears
    MaxLoads,          \* bound on starts of the bot
    MaxViews,          \* bound on pages of the cockpit
    Damage             \* may the legacy file be unreadable?

ASSUME HistoryLayoutAssumption ==
    /\ IsFiniteSet(Conversation) /\ MaxConversations \in Nat \ {0}
    /\ MaxChanges \in Nat /\ MaxLoads \in Nat /\ MaxViews \in Nat /\ Damage \in BOOLEAN

VARIABLES
    up,        \* is the bot running?
    cache,     \* the conversations in _history, least recently used first
    mem,       \* their messages
    dirtyKeys,
    legacy,    \* the legacy file
    paths,     \* the conversations that have a file, by modification time
    content,   \* the messages in each file
    flushing,  \* what the flush's thread is doing
    reading,   \* what a page of the cockpit is doing
    changes, loads, views,
    kept,      \* history variable: what is stored of each conversation that must not be lost
    promised   \* history variable: the same at the time when the page began to read

layoutVars == <<up, cache, mem, dirtyKeys, legacy, paths, content, flushing, reading, changes,
                loads, views, kept, promised>>

Nowhere == [c \in Conversation |-> 0]
InCache(c) == \E i \in DOMAIN cache : cache[i] = c
HasFile(c) == \E i \in DOMAIN paths : paths[i] = c
NotFlushing == [st |-> "idle", keys |-> {}, left |-> {}, snapshot |-> Nowhere, migrating |-> FALSE]
NotReading == [st |-> "idle", old |-> Nowhere, new |-> Nowhere, left |-> {}]

Elements(s) == {s[i] : i \in DOMAIN s}

\* a sequence without the members of S, in the same order
Without(s, S) ==
    LET Rest[i \in 0 .. Len(s)] == IF i = 0 THEN <<>>
                                   ELSE IF s[i] \in S THEN Rest[i - 1]
                                   ELSE Append(Rest[i - 1], s[i])
    IN  Rest[Len(s)]
OthersOf(s, c) == Without(s, {c})
Newest(s, n) == IF Len(s) <= n THEN s ELSE SubSeq(s, Len(s) - n + 1, Len(s))

-----------------------------------------------------------------------------
(* The cache.                                                               *)

\* the conversations in S are evicted, capped or cleared: nobody need find them any more
Forget(S) ==
    /\ kept' = [c \in Conversation |-> IF c \in S THEN 0 ELSE kept[c]]
    /\ promised' = [c \in Conversation |-> IF c \in S THEN 0 ELSE promised[c]]

\* the cache becomes s, but for its oldest conversations beyond the cap, whose files are deleted
EvictExcess(s, m) ==
    LET now == Newest(s, MaxConversations)
        gone == Elements(s) \ Elements(now)
    IN  /\ cache' = now
        /\ mem' = [c \in Conversation |-> IF c \in gone THEN 0 ELSE m[c]]
        /\ paths' = Without(paths, gone)
        /\ content' = [c \in Conversation |-> IF c \in gone THEN 0 ELSE content[c]]
        /\ Forget(gone)

\* get_history: a cached conversation becomes the most recently used one, another one is
\* created and may evict; the messages become m
GetHistory(c, m) ==
    IF InCache(c)
    THEN /\ cache' = Append(OthersOf(cache, c), c) /\ mem' = m
         /\ UNCHANGED <<paths, content, kept, promised>>
    ELSE EvictExcess(Append(cache, c), m)

\* observe, record_assistant_message or persist_turn
Change(c) ==
    /\ up /\ changes < MaxChanges
    /\ changes' = changes + 1
    /\ GetHistory(c, [mem EXCEPT ![c] = changes + 2])
    /\ dirtyKeys' = dirtyKeys \cup {c}
    /\ UNCHANGED <<up, legacy, flushing, reading, loads, views>>

\* get_conversation_messages for one conversation, known or not, and build_messages
ReadOne(c) ==
    /\ up
    /\ GetHistory(c, mem)
    /\ UNCHANGED <<up, dirtyKeys, legacy, flushing, reading, changes, loads, views>>

\* list_conversations leaves the empty ones out, the most recently used one first
Listed == Without(cache, {c \in Conversation : mem[c] = 0})

\* format_all_conversations reads all of them in the order of that list
ReadAll ==
    /\ up
    /\ cache' = Without(cache, Elements(Listed))
                    \o [i \in DOMAIN Listed |-> Listed[Len(Listed) + 1 - i]]
    /\ UNCHANGED <<up, mem, dirtyKeys, legacy, paths, content, flushing, reading, changes, loads,
                   views, kept, promised>>

\* clear_history: a new entry does not evict
ClearHistory(c) ==
    /\ up /\ changes < MaxChanges
    /\ changes' = changes + 1
    /\ cache' = IF InCache(c) THEN cache ELSE Append(cache, c)
    /\ mem' = [mem EXCEPT ![c] = 0]
    /\ dirtyKeys' = dirtyKeys \cup {c}
    /\ Forget({c})
    /\ UNCHANGED <<up, legacy, paths, content, flushing, reading, loads, views>>

-----------------------------------------------------------------------------
(* A flush.                                                                 *)

\* snapshot_for_flush: everything that is cached as long as the legacy file exists
BeginFlush ==
    /\ up /\ flushing.st = "idle" /\ dirtyKeys # {}
    /\ LET migrating == legacy.st # "gone"
           keys == IF migrating THEN Elements(cache) ELSE dirtyKeys
       IN  flushing' = [st |-> "writing", keys |-> keys, left |-> keys, migrating |-> migrating,
                        snapshot |-> [c \in Conversation |-> IF c \in keys THEN mem[c] ELSE 0]]
    /\ UNCHANGED <<up, cache, mem, dirtyKeys, legacy, paths, content, reading, changes, loads,
                   views, kept, promised>>

\* write_conversation_file replaces or unlinks the file
WriteConversation(c) ==
    /\ flushing.st = "writing" /\ c \in flushing.left
    /\ LET n == flushing.snapshot[c]
       IN  /\ content' = [content EXCEPT ![c] = n]
           /\ paths' = IF n = 0 THEN OthersOf(paths, c) ELSE Append(OthersOf(paths, c), c)
           /\ kept' = [kept EXCEPT ![c] = IF InCache(c) /\ mem[c] # 0 THEN n ELSE 0]
    /\ flushing' = [flushing EXCEPT !.left = @ \ {c}]
    /\ UNCHANGED <<up, cache, mem, dirtyKeys, legacy, reading, changes, loads, views, promised>>

\* the files that prune_conversation_files deletes: those that this flush has not written
Stale == {c \in Elements(paths) : flushing.migrating /\ flushing.snapshot[c] = 0}

PruneFile(c) ==
    /\ flushing.st = "writing" /\ flushing.left = {} /\ c \in Stale
    /\ paths' = OthersOf(paths, c)
    /\ content' = [content EXCEPT ![c] = 0]
    /\ UNCHANGED <<up, cache, mem, dirtyKeys, legacy, flushing, reading, changes, loads, views,
                   kept, promised>>

\* the legacy file goes last
RemoveLegacy ==
    /\ flushing.st = "writing" /\ flushing.left = {} /\ Stale = {} /\ legacy.st # "gone"
    /\ legacy' = [st |-> "gone", of |-> Nowhere]
    /\ UNCHANGED <<up, cache, mem, dirtyKeys, paths, content, flushing, reading, changes, loads,
                   views, kept, promised>>

\* the rest of flush_once: all is written, or an error has ended the thread
FlushEnds ==
    /\ flushing.st = "writing"
    /\ \/ /\ flushing.left = {} /\ Stale = {} /\ legacy.st = "gone"
          /\ dirtyKeys' = dirtyKeys \ flushing.keys
       \/ dirtyKeys' = dirtyKeys \cup flushing.keys
    /\ flushing' = NotFlushing
    /\ UNCHANGED <<up, cache, mem, legacy, paths, content, reading, changes, loads, views, kept,
                   promised>>

-----------------------------------------------------------------------------
(* A crash and the next start.                                              *)

BotEnds ==
    /\ up
    /\ up' = FALSE
    /\ cache' = <<>> /\ mem' = Nowhere /\ dirtyKeys' = {} /\ flushing' = NotFlushing
    /\ UNCHANGED <<legacy, paths, content, reading, changes, loads, views, kept, promised>>

\* Faulty variant: a bot with a directory does not look at the legacy file
DirectoryOnly(dir) == IF dir # <<>> THEN {} ELSE {c \in Conversation : legacy.of[c] # 0}

\* load_legacy_history_file: the conversations it adds to those of the directory
FromLegacy(dir) == {c \in Conversation : legacy.of[c] # 0} \ Elements(dir)

\* load_history_state with cap_history_paths, in whatever order the legacy file has; when it is
\* damaged, the conversations of the directory are dropped as well
LoadHistory ==
    /\ ~up /\ loads < MaxLoads
    /\ up' = TRUE /\ loads' = loads + 1
    /\ LET dir == Newest(paths, MaxConversations)
           old == FromLegacy(dir)
       IN  IF legacy.st = "damaged"
           THEN /\ cache' = <<>> /\ mem' = Nowhere
                /\ paths' = dir
                /\ content' = [c \in Conversation |-> IF c \in Elements(dir) THEN content[c] ELSE 0]
                /\ Forget(Elements(paths) \ Elements(dir))
           ELSE \E more \in [1 .. Cardinality(old) -> old] :
                /\ Elements(more) = old
                /\ LET all == dir \o more
                       now == Newest(all, MaxConversations)
                   IN  /\ cache' = now
                       /\ mem' = [c \in Conversation |->
                            IF c \notin Elements(now) THEN 0
                            ELSE IF c \in Elements(dir) THEN content[c] ELSE legacy.of[c]]
                       /\ paths' = Without(dir, Elements(all) \ Elements(now))
                       /\ content' = [c \in Conversation |->
                            IF c \in Elements(now) THEN content[c] ELSE 0]
                       /\ Forget((Elements(all) \ Elements(now)) \cup (Elements(paths) \ Elements(dir)))
    /\ UNCHANGED <<dirtyKeys, legacy, flushing, reading, changes, views>>

-----------------------------------------------------------------------------
(* A page of the cockpit.                                                   *)

\* load_history_raw starts with the legacy file (read_history_file)
ReadLegacy ==
    /\ reading.st = "idle" /\ views < MaxViews
    /\ views' = views + 1
    /\ reading' = [NotReading EXCEPT !.st = "listing", !.old = legacy.of]
    /\ promised' = kept
    /\ UNCHANGED <<up, cache, mem, dirtyKeys, legacy, paths, content, flushing, changes, loads, kept>>

\* read_history_dir lists the directory,
ListFiles ==
    /\ reading.st = "listing"
    /\ reading' = [reading EXCEPT !.st = "reading", !.left = Elements(paths)]
    /\ UNCHANGED <<up, cache, mem, dirtyKeys, legacy, paths, content, flushing, changes, loads,
                   views, kept, promised>>

\* and reads one file after the other, of which some may be gone
ReadFile(c) ==
    /\ reading.st = "reading" /\ c \in reading.left
    /\ reading' = [reading EXCEPT !.left = @ \ {c}, !.new = [@ EXCEPT ![c] = content[c]]]
    /\ UNCHANGED <<up, cache, mem, dirtyKeys, legacy, paths, content, flushing, changes, loads,
                   views, kept, promised>>

\* Faulty variant: the legacy file wins
LegacyWins(old, new) == [c \in Conversation |-> IF old[c] # 0 THEN old[c] ELSE new[c]]

\* the directory wins
Merged(old, new) == [c \in Conversation |-> IF new[c] # 0 THEN new[c] ELSE old[c]]

PageIsRead == reading.st = "reading" /\ reading.left = {}

\* history and interaction_summary return what has been read
ShowPage ==
    /\ PageIsRead
    /\ reading' = NotReading
    /\ promised' = Nowhere
    /\ UNCHANGED <<up, cache, mem, dirtyKeys, legacy, paths, content, flushing, changes, loads,
                   views, kept>>

-----------------------------------------------------------------------------
LayoutInit ==
    /\ up = FALSE /\ cache = <<>> /\ mem = Nowhere /\ dirtyKeys = {}
    /\ \/ \E S \in SUBSET Conversation :
            legacy = [st |-> IF S = {} THEN "gone" ELSE "there",
                      of |-> [c \in Conversation |-> IF c \in S THEN 1 ELSE 0]]
       \/ Damage /\ legacy = [st |-> "damaged", of |-> Nowhere]
    /\ \E c \in Conversation :
        /\ paths = IF legacy.st = "damaged" THEN <<c>> ELSE <<>>
        /\ content = [d \in Conversation |-> IF legacy.st = "damaged" /\ d = c THEN 1 ELSE 0]
    /\ flushing = NotFlushing /\ reading = NotReading
    /\ changes = 0 /\ loads = 0 /\ views = 0
    /\ kept = [c \in Conversation |-> IF content[c] # 0 THEN content[c] ELSE legacy.of[c]]
    /\ promised = Nowhere

LayoutNext ==
    \/ \E c \in Conversation : Change(c) \/ ReadOne(c) \/ ClearHistory(c)
    \/ \E c \in Conversation : WriteConversation(c) \/ PruneFile(c) \/ ReadFile(c)
    \/ ReadAll \/ BeginFlush \/ RemoveLegacy \/ FlushEnds \/ BotEnds \/ LoadHistory
    \/ ReadLegacy \/ ListFiles \/ ShowPage

LayoutSpec == LayoutInit /\ [][LayoutNext]_layoutVars

-----------------------------------------------------------------------------
(* Properties.                                                              *)

\* what is stored of a conversation, as the next start finds it
Stored(c) == IF HasFile(c) THEN content[c] ELSE legacy.of[c]

\* However the migration of the legacy file is interrupted and repeated: what was once stored
\* of a conversation that was neither evicted nor cleared is still stored, and a bot that is up
\* has it, or something newer, in its cache.
StoredHistoryIsKept ==
    \A c \in Conversation : kept[c] # 0 =>
        /\ Stored(c) = kept[c]
        /\ up => InCache(c) /\ mem[c] >= kept[c]

\* A page that reads the legacy file first and the directory after it, while the bot writes,
\* migrates, crashes and starts again in between, misses no conversation that was stored when it
\* began, and shows none in an older version, but for those evicted or cleared meanwhile.
PagesShowStoredHistory ==
    PageIsRead => \A c \in Conversation : Merged(reading.old, reading.new)[c] >= promised[c]
==============================================================================
