\* Two requests for one tenant both miss the cache and both insert, then
\* serve KV calls through the instance they hold.
CONSTANTS
    Tasks = {t1, t2}
    Owners = {o1}
    Bss = {b1}
    Uris = {u1, u2}
    KvKeys <- MCKvKeys
    KvVals = {"v1"}
    KvInfos = {"i1"}
    KvPrefixes <- MCKvPrefixes
    PageSizes = {1}
    PageNumbers = {1, 3}

INIT KvInit
NEXT KvNext
INVARIANT NoUseAfterFree
