------------------------------ MODULE MCDiscord ------------------------------
(* Small instances of every part.                                           *)
EXTENDS Discord

ItemsOf(commands, tools, execs, spawns, chunks) ==
    [commands |-> commands, tools |-> tools, execs |-> execs, spawns |-> spawns,
     chunks |-> chunks, queue |-> 2, active |-> 1, recent |-> 1, tail |-> 1, entries |-> 2]
MCItems == {ItemsOf({"c"}, {"m"}, {}, {}, 2), ItemsOf({}, {}, {"x"}, {"p"}, 1)}

CardsOf(tasks, changes, faults) ==
    [tasks |-> tasks, loop |-> "loop", handlers |-> {"consumer"},
     changes |-> changes, turns |-> 1, faults |-> faults]
MCCards == {CardsOf({"t"}, 3, 2), CardsOf({"t", "u"}, 2, 1)}

MirrorOf(tasks, owners, turns, calls, refusals) ==
    [tasks |-> tasks, consumer |-> "consumer", boot |-> "boot", owners |-> owners,
     at |-> 1, to |-> 0, turns |-> turns, calls |-> calls, created |-> 2,
     refusals |-> refusals]
MCMirror == {MirrorOf({"t"}, {"o"}, 1, 2, 0), MirrorOf({"t"}, {"o"}, 1, 1, 1),
             MirrorOf({"t"}, {"o", "p"}, 0, 2, 1), MirrorOf({"t", "u"}, {"o", "p"}, 0, 2, 0),
             MirrorOf({"t", "u"}, {"o"}, 0, 3, 0)}

FormsOf(clicks, fields, page) ==
    [tokens |-> {"t"}, clicks |-> clicks, workers |-> 2, fields |-> fields,
     page |-> page, required |-> {1}, most |-> 6]
MCForms == {FormsOf({"c", "d"}, 2, 1), FormsOf({"c"}, 3, 2)}

GuildOf(setups, movers, months, channels, faults) ==
    [setups |-> setups, movers |-> movers, room |-> 1, months |-> months,
     channels |-> channels, faults |-> faults]
MCGuild == {GuildOf({"s"}, {"m"}, 1, 6, 0), GuildOf({"s", "r"}, {}, 1, 5, 1),
            GuildOf({}, {"m", "n"}, 2, 4, 0)}

MCCalls == {[limit |-> 2, bytes |-> 4, items |-> 3, turns |-> 3, calls |-> 3]}

MCPages == {[buttons |-> {"c", "d"}, pages |-> 3, most |-> 5]}

AsksOf(room) == [room |-> room, buttons |-> 2, offered |-> 3, fields |-> 2]
MCAsks == {AsksOf(1), AsksOf(2)}

GoneOf(messages, failing, restarts) ==
    [messages |-> messages, stuck |-> {"a"}, newest |-> 1, oldest |-> 1, tries |-> 2,
     failing |-> failing, restarts |-> restarts]
MCGone == {GoneOf({"a", "b", "c"}, 1, 0), GoneOf({"a", "b"}, 2, 1)}

MCLimit == {[failures |-> 3, window |-> 2, lockout |-> 3, time |-> 6, attempts |-> 5]}

MenusOf(kinds, tokens, entries, threads, edits) ==
    [kinds |-> kinds, tokens |-> tokens, entries |-> entries, size |-> 2,
     threads |-> threads, onscreen |-> 2, edits |-> edits]
MCMenus == {MenusOf({"plugin"}, {"t"}, 3, {1}, 2),
            MenusOf({"skill", "app", "model"}, {"t"}, 3, {1}, 1),
            MenusOf({"file"}, {"t", "u"}, 2, {1, 2}, 2)}
=============================================================================
