------------------------------- MODULE Assets ---------------------------------
(***************************************************************************)
(* The assets of apps: big files that op.json names by URL, pinned to a    *)
(* hash or not.  A deploy resolves them into a content-addressed cache     *)
(* before it stops the app, and places copies into the app's data          *)
(* directory before it starts it again.  A file is its content, and a      *)
(* content stands for its own hash.  Deploys run one at a time; the daemon *)
(* may die at any step while the apps go on.                               *)
(***************************************************************************)
EXTENDS Naturals

CONSTANTS
  Players,    \* apps, each with one asset
  Links,      \* URLs of the allowed hosts
  Contents,   \* file contents
  Nothing     \* no content

ASSUME AssetsAssumption ==
  Nothing \notin Contents /\ Players # {} /\ Links # {} /\ Contents # {}

Maybe == Contents \cup {Nothing}

VARIABLES
  origin,     \* what a URL serves now
  cacheFile,  \* the content of sha256/<hash>
  urlIndex,   \* the hash remembered for a URL
  dataFile,   \* the asset's file in an app's data directory
  playing,    \* the apps that have a container running
  fetching    \* the deploy under way; lingers: its old container could not be stopped

assetsVars == <<origin, cacheFile, urlIndex, dataFile, playing, fetching>>

Rest == CHOOSE j \in [pc : {"idle"}, app : Players, link : Links, pin : {Nothing},
                      got : {Nothing}, lingers : {FALSE}] : TRUE

AssetsTypeOK ==
  /\ origin \in [Links -> Contents]
  /\ cacheFile \in [Contents -> Maybe] /\ urlIndex \in [Links -> Maybe]
  /\ dataFile \in [Players -> Maybe] /\ playing \subseteq Players
  /\ fetching \in [pc : {"idle", "resolve", "fetch", "keep", "index", "build", "place", "start"},
                   app : Players, link : Links, pin : Maybe, got : Maybe, lingers : BOOLEAN]
  /\ fetching.pc \in {"keep", "index", "build", "place", "start"} => fetching.got # Nothing

AssetsInit ==
  /\ origin = [u \in Links |-> CHOOSE c \in Contents : TRUE]
  /\ cacheFile = [c \in Contents |-> Nothing]
  /\ urlIndex = [u \in Links |-> Nothing]
  /\ dataFile = [a \in Players |-> Nothing]
  /\ playing = {}
  /\ fetching = Rest

-------------------------------------------------------------------------------
(***************************************************************************)
(* Surroundings: a URL serves something else, the operator clears a file   *)
(* of the cache, an app rewrites or removes its own copy.                  *)
(***************************************************************************)

Republish ==
  /\ \E u \in Links, c \in Contents : origin' = [origin EXCEPT ![u] = c]
  /\ UNCHANGED <<cacheFile, urlIndex, dataFile, playing, fetching>>

Evict ==
  /\ \E c \in Contents : cacheFile' = [cacheFile EXCEPT ![c] = Nothing]
  /\ UNCHANGED <<origin, urlIndex, dataFile, playing, fetching>>

AppRewrites ==
  /\ \E a \in playing, c \in Maybe : dataFile' = [dataFile EXCEPT ![a] = c]
  /\ UNCHANGED <<origin, cacheFile, urlIndex, playing, fetching>>

(***************************************************************************)
(* A deploy.                                                               *)
(***************************************************************************)

FetchFails == fetching' = Rest

StartFetching ==
  /\ fetching.pc = "idle"
  /\ \E a \in Players, u \in Links, pin \in Maybe :
       fetching' = [Rest EXCEPT !.pc = "resolve", !.app = a, !.link = u, !.pin = pin]
  /\ UNCHANGED <<origin, cacheFile, urlIndex, dataFile, playing>>

\* Variant: only a pin is looked up in the cache.
ExpectedPinned == fetching.pin

\* The hash to look for: the pin, or else what the URL resolved to before.
Expected == IF fetching.pin # Nothing THEN fetching.pin ELSE urlIndex[fetching.link]

Resolve ==
  /\ fetching.pc = "resolve"
  /\ fetching' =
       IF Expected # Nothing /\ cacheFile[Expected] # Nothing
         THEN [fetching EXCEPT !.pc = "build", !.got = Expected]
         ELSE [fetching EXCEPT !.pc = "fetch"]
  /\ UNCHANGED <<origin, cacheFile, urlIndex, dataFile, playing>>

\* Variant: the body is taken for what was expected.
DownloadTrusted ==
  /\ fetching.pc = "fetch"
  /\ \/ FetchFails
     \/ fetching' = [fetching EXCEPT !.pc = "keep", !.got = Expected]
  /\ UNCHANGED <<origin, cacheFile, urlIndex, dataFile, playing>>

\* The body goes to a temporary file; it may fail, exceed the cap, or mismatch its pin.
Download ==
  /\ fetching.pc = "fetch"
  /\ LET body == origin[fetching.link] IN
       \/ FetchFails
       \/ /\ fetching.pin \in {Nothing, body}
          /\ fetching' = [fetching EXCEPT !.pc = "keep", !.got = body]
  /\ UNCHANGED <<origin, cacheFile, urlIndex, dataFile, playing>>

\* Variant: the name in the cache is the hash that was expected, whatever came.
KeepUnderExpected ==
  /\ fetching.pc = "keep"
  /\ LET h == IF Expected # Nothing THEN Expected ELSE fetching.got IN
       cacheFile' = [cacheFile EXCEPT ![h] = fetching.got]
  /\ fetching' = [fetching EXCEPT !.pc = "index"]
  /\ UNCHANGED <<origin, urlIndex, dataFile, playing>>

\* The name in the cache is the hash of what came.
KeepFile ==
  /\ fetching.pc = "keep"
  /\ cacheFile' = [cacheFile EXCEPT ![fetching.got] = fetching.got]
  /\ fetching' = [fetching EXCEPT !.pc = "index"]
  /\ UNCHANGED <<origin, urlIndex, dataFile, playing>>

RememberUrl ==
  /\ fetching.pc = "index"
  /\ urlIndex' = [urlIndex EXCEPT ![fetching.link] = fetching.got]
  /\ fetching' = [fetching EXCEPT !.pc = "build"]
  /\ UNCHANGED <<origin, cacheFile, dataFile, playing>>

\* The build fails, or the app's container is stopped; a stop that fails is only logged.
BuildAndStop ==
  /\ fetching.pc = "build"
  /\ \/ FetchFails /\ UNCHANGED playing
     \/ /\ fetching' = [fetching EXCEPT !.pc = "place"]
        /\ playing' = playing \ {fetching.app}
     \/ /\ fetching.app \in playing
        /\ fetching' = [fetching EXCEPT !.pc = "place", !.lingers = TRUE]
        /\ UNCHANGED playing
  /\ UNCHANGED <<origin, cacheFile, urlIndex, dataFile>>

\* Variant: any file that is there is taken for the asset.
InPlaceAlready == dataFile[fetching.app] # Nothing

\* The file that is there has the size and the hash of the asset.
InPlace == dataFile[fetching.app] = fetching.got

\* A copy of the cached file, renamed into place; or the app stays down.
PlaceFile ==
  /\ fetching.pc = "place"
  /\ \/ InPlace /\ UNCHANGED dataFile /\ fetching' = [fetching EXCEPT !.pc = "start"]
     \/ /\ ~InPlace /\ cacheFile[fetching.got] # Nothing
        /\ dataFile' = [dataFile EXCEPT ![fetching.app] = cacheFile[fetching.got]]
        /\ fetching' = [fetching EXCEPT !.pc = "start"]
     \/ ~InPlace /\ FetchFails /\ UNCHANGED dataFile
  /\ UNCHANGED <<origin, cacheFile, urlIndex, playing>>

StartPlayer ==
  /\ fetching.pc = "start"
  /\ playing' \in {playing, playing \cup {fetching.app}}
  /\ fetching' = Rest
  /\ UNCHANGED <<origin, cacheFile, urlIndex, dataFile>>

\* The daemon dies; an index it was writing may be cut short, which reads as none.
FetcherDies ==
  /\ fetching.pc # "idle"
  /\ fetching' = Rest
  /\ \/ UNCHANGED urlIndex
     \/ fetching.pc = "index" /\ urlIndex' = [urlIndex EXCEPT ![fetching.link] = Nothing]
  /\ UNCHANGED <<origin, cacheFile, dataFile, playing>>

AssetsNext ==
  \/ Republish \/ Evict \/ AppRewrites
  \/ StartFetching \/ Resolve \/ Download \/ KeepFile \/ RememberUrl
  \/ BuildAndStop \/ PlaceFile \/ StartPlayer \/ FetcherDies

AssetsSpec == AssetsInit /\ [][AssetsNext]_assetsVars

-------------------------------------------------------------------------------
(***************************************************************************)
(* Properties.                                                             *)
(***************************************************************************)

\* The cache is content-addressed: what is found under a hash has that hash, after any
\* redirect to other content, cleared file or daemon killed half-way.
CacheIsAddressed == \A c \in Contents : cacheFile[c] \in {c, Nothing}

\* An app wakes up with its asset in place: with the pinned content if it pins one, else
\* with what its URL resolved to, though the app rewrote its copy and the file was cleared
\* from the cache meanwhile.  Only an old container that could not be stopped can undo it.
WakesWithItsAsset ==
  [][\A a \in playing' \ playing :
       dataFile[a] = fetching.got /\ fetching.pin \in {Nothing, fetching.got}]_assetsVars

\* Trust on first use: while the file a URL resolved to is in the cache, no deploy of an
\* app that does not pin it makes the URL resolve to anything else.
FirstUseSticks ==
  [][\A u \in Links :
       urlIndex[u] # Nothing /\ urlIndex'[u] \notin {urlIndex[u], Nothing}
         => fetching.pin # Nothing \/ cacheFile[urlIndex[u]] = Nothing]_assetsVars

\* However origins, the cache and the apps' copies change under a deploy: content is found
\* under its own hash, an app wakes with what was resolved, and a URL keeps its first content.
AssetsHold == []CacheIsAddressed /\ WakesWithItsAsset /\ FirstUseSticks
===============================================================================
