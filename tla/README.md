# Specifications of the Limb framework

Limb is a set of PHP packages, each a directory of the repository, with the scripts
that run in the browser beside them. Most packages convert text, wrap another library
or look something up. What can go wrong over time is in those that keep state between
calls and share it: on the server trees kept in a table, caches that several processes
use, and objects that are saved to a database through other objects; in the browser
the file browser, the calendar, the control panel and the widgets of its pages, where
requests, readers, animations and timers end while the user goes on. These
specifications model both parts in TLA+. They are checked with TLC on small instances,
and most of what the runs check as invariants (all but the lists of files and what the
queries of a tree answer), with two refinements and several action properties, is proved
for instances of any size with TLAPS.

## The parts of the system

| part | state it keeps | operations | used by / uses |
|---|---|---|---|
| `tree` | a table: `parent_id`, `level`, `identifier` and either endpoints `c_left`, `c_right` (`lmbNSTree`) or a `path` (`lmbMPTree`) | initTree, createNode, updateNode, deleteNode, deleteAll, moveNode, moveNodeUp, moveNodeDown, queries | `cms` keeps its documents in it; `dbal` executes its statements |
| `cache2` | values and deadlines per key, in files, an array, a table, the session or memcached; versions of tags; locks of counters | add, set, get, delete, flush, increment, decrement, lock, unlock; deleteByTag | `web_app`, `macro`, applications; uses `fs`, `dbal`, `session` |
| `active_record` | per object: fields, `_is_new`, `_dirty_props`, `_is_being_saved`; collections of related objects | save, trySave, set, add to a collection, destroy, find | `cms`, applications; uses `dbal` |
| `dbal` | connections; `is_in_transaction` of `lmbAutoTransactionConnection` | statements, begin, commit, rollback | everything that stores rows |
| `web_app`, `filter_chain`, `net`, `session` | a request on its way through filters: the response's buffer, the session, the connection | the filters in their order, each calling the next | the entry point of a site |
| `toolkit` | a stack of tool sets and their properties | save, restore, merge, setTools | every package fetches its services there |
| `config`, `fs` | files, and a cache of parsed INI files beside them | read, cached read, safe write | `web_app`, `cache2` |
| `acl` | roles, resources, privileges and rules | addRole, allow, deny, isAllowed | applications |
| `taskman` | tasks, dependencies, `has_run` marks | run | developers' scripts |
| `wysiwyg` (KCFinder, the file browser) | the open folder, the tree's marks, the files of the pane and their selection, the clipboard; queues of dropped files; the image that is open and its lock | expand, open, make, rename, delete and refresh folders; sort, select, copy, cut, delete files; drop and send files; view and page images | requests of the server, FileReader, timers of the page |
| `calendar` | the calendar's date, grid, current cell, clock, the field it is open for; three boxes and the field they fill | clicks, keys, boxes of months and years; triggers of fields | fields of forms |
| `cms` (control panel), `js` (classes, widgets) | forms moved between boxes, cookies, panels that slide; rows of lists, options in boxes, the modal window and what is in it | clicks, moves, loads, uploads into an iframe | pages of `cms` and of applications |
| `web_cache`, `web_spider`, `search`, `log`, `mail`, `imagekit`, `i18n`, `view`, `macro`, `validation`, `datetime`, `cli`, `core`, `swishe`, `web_agent`, `constructor`, `tests_runner` | none that outlives a call, or state of a library they wrap | conversions, output, lookups | |

`PROJECT.json` lists every part with its source files and whether it is modelled.

They interact in three ways. Packages call each other within a request, and
exceptions travel back through those calls: a save of one object calls saves of
others and the connection below them. Requests, which are processes of their own,
meet only in what they share: tables, cache files, memcached, session files. And a
process may end anywhere (an error, a time limit), so that what it has done so far is
what the others find. In a page everything runs in one thread, and the parts meet in
callbacks: an answer, the end of an animation or a timer finds the page as the user
has left it meanwhile, and variables of the page (`_.dir`, `window.calendar`,
`this.parent`, one cookie for all tabs) are shared by calls that do not know of each
other.

### What is hard to test in it

* **Several encodings of one fact.** A tree row says three times who its parent is;
  a cache entry is two files that are looked at separately; a lecture has its course
  as a column and as an object. Each operation has to change all of them.
* **Arithmetic on intervals.** An operation on a nested set renumbers most of the
  table with one UPDATE, and whether its comparisons should be strict shows only for
  some shapes of the tree.
* **Half an operation.** Tree operations are two statements without a transaction;
  a save rolls back in the middle of other saves; a process dies with a lock.
* **Stale reads.** A tagged entry is stored with versions read earlier and compared
  with versions read later; a counter is written as what was read plus one; entries
  expire between two looks at them.
* **Late callbacks.** A file is dropped on one folder and sent when another is open;
  rows are drawn 200 ms after the files they are of were known; a question is answered
  after the folder has changed; two images load for one viewer; a box is changed before
  the timer of another has run.
* **One object for many users.** One popup calendar serves the fields of a page, one
  cookie several tabs, one modal window every link.
* **Edges of the calendar.** Months differ in length, years end, some days may not be
  chosen, and an hour is missing in summer.
* **Calls that come back.** Saving a course saves its lectures, which save their
  course.

### What makes each part correct

* tree: intervals are disjoint or nested; `parent_id`, `level`, and the intervals or
  paths name the same parents; an operation changes the ancestry of the rows it is
  meant for and of no other; both drivers are trees as `lmbTree` promises.
* cache drivers: no value comes back that was deleted, flushed, overwritten or has
  expired; what was stored can be read.
* counters: one process at a time between lock and unlock; a lock does not outlive
  its holder for ever; no call waits.
* tags: no invalidated entry is answered, no other entry is lost.
* records: a row per object, with the foreign keys of its relations; a request
  commits all or nothing; a save that answers success has stored the object.
* file browser: a file reaches the folder it was dropped on; the pane, the mark of the
  tree and the open folder are one; what a menu or the clipboard names is what is done.
* image viewer: lock, image and keys belong to the viewer that is open, and it can
  always be used again.
* calendar: the cell that is marked is the date's; arrows and buttons go one step; a
  field changes only while the calendar is open for it, and only as its user chooses.
* control panel and widgets: one filter, one panel of an accordion is open; a window
  gives back the element it took; a move moves one row; a method runs once in each
  class that has it.

## The modules

| module | models | state and actions |
|---|---|---|
| `Tree` | the interface `lmbTree` | a function from nodes to parents; one action per operation, with the effect its name and tests promise |
| `OrderedTree` | the same with ordered siblings | a function from nodes to sequences of children |
| `NSTree` | `lmbNSTree` | the columns of the table as functions of the row. An operation is one action, its guards are the exceptions the code throws, its new values the columns after all its statements. `InterruptedCreateNode` and `InterruptedDeleteNode` are the operations that stop after the first statement |
| `NSTreeImplements` | the queries of `lmbNSTree` | `getChildren`, `getParents`, `getPathToNode`, `getNodeByPath` as operators on the columns; the refinement mappings to `Tree` and `OrderedTree` |
| `Ordering`, `OrderingProofs` | `ORDER BY`, `sort` and loops that pass over elements | what sorting a set (`Listed`) and filtering a sequence (`Filtered`) return, and the theorems about both. They are defined by the places of the elements and give the same sequences as `SetToSortSeq` and `SelectSeq`, which the prover cannot use |
| `MPTree` | `lmbMPTree` | as `NSTree`, with paths as sequences of ids and slashes; its `SUBSTRING` and `LIKE` are operators that do what they do to a path. The interrupted operations are a specification of their own, `InterruptedSpec` |
| `TreeProofs` | | the theorems about `NSTree`, its queries and its refinement of `Tree`, and those about `MPTree` as `MCTrees` instantiates it (`MP!`) |
| `CacheConnection` | | the constant that the models of connections share |
| `CacheContract` | the interface `lmbCacheConnection` | per key nothing, or a value and when it is gone; the answers a caller sees |
| `FileCache`, `MemoryCache`, `DbCache`, `SessionCache` | the four drivers, each in one process | what the driver keeps for values and for deadlines, one action per method |
| `CacheDrivers` | `lmbCacheFactory` | which driver a connection is, then the actions of that driver; the refinement mapping to `CacheContract` |
| `CacheCounter` | `increment`, `decrement` and their safe forms in `lmbCacheAbstractConnection` | the counter, the lock entry and its expiry, and for each process where in the call it is; one action per call of the driver, and processes that die |
| `TaggableCache` | `lmbTaggableCacheWrapper` over a store that several processes share | extends `CacheCounter`, whose counters are the versions of the tags; entries with the versions they were stored with; one action per call of the store |
| `CacheProofs` | | the theorems about the drivers, about `CacheCounter`, and about `TaggableCache`, which use the lemmas about the counter on the steps of a call |
| `RecordSave` | `lmbActiveRecord::_doSave`, the collections of a has_many relation, `lmbAutoTransactionConnection` and `lmbAutoDbTransactionFilter` | the objects, the tables in the transaction and as committed, and the stack of the saves in progress, each with where it is in `_doSave`; an exception as an action that may happen at any step |
| `RecordSaveProofs` | | the theorems about `RecordSave` |
| `KcfFolders` | `090.folders.js`, with the folders' part of `080.files.js`, `091.menus.js` and `060.toolbar.js` | the disk; the nodes of the tree with their path, mark and whether they are open; the open folder, the pane, animations, indicators and timers under way, the menu or question that is open. A handler with its synchronous request and answer is one action, so is the callback of an animation or a timer |
| `KcfFiles` | `080.files.js`, `091.menus.js`, `100.clipboard.js` and the form upload of `060.toolbar.js` | the files of each folder, of the pane and in the clipboard, the selection, the order, the menu. One action per command of the menus |
| `KcfBrowserProofs` | | the theorems about `KcfFolders` and `KcfFiles`, as `MCKcfBrowser` instantiates them |
| `KcfUpload` | `110.dropUpload.js` | for each closure of `initDropUpload` its queue, the files being read and sent, `uploadInProgress`, its intervals; where every file has been stored. Drops, ends of reads and of requests, ticks of intervals and changes of the folder are actions |
| `KcfViewer` | `091.viewImage.js` | the dialog, the image shown and the current one, the lock, the loads under way with what each will do, the keys |
| `KcfUploadProofs` | | the theorems about `KcfUpload` and `KcfViewer` |
| `CalendarDates` | what `calendar.js` adds to `Date` | operators: setFullYear, week numbers, days of the year, printing and parsing |
| `Calendar` | the grid of `calendar.js` | the date, the first day of the week, the grid, the current cell, the button held down and the box it opened. One action per click, key and release |
| `CalendarPopup` | `calendar-setup.js`, and the handlers of `calendar.js` | the one calendar, the fields, for whom it is open; clicks and keys reduced to what they do to the date and the handlers |
| `CalendarClock` | the time of `calendar.js` | the hour and the two texts that show it |
| `DateWidget` | `datewidget.js` | three boxes, the options of the day, the timers under way, the field |
| `CalendarProofs` | | the theorems about these, as `MCCalendar` instantiates them |
| `CmsPanel` | `cp.js` and its cookie | per tab the boxes and the form, the sidebar, the light version; the cookie's names |
| `Accordion` | `accordion.js` | per panel whether it is closed, open, sliding, and what waits for the end of that |
| `FormUpload` | `CMS.forms.upload_file` | loads to come, what is in the iframe, timers, whether the form is still there and what the caller was told |
| `ClassKit` | `Limb.Classkit` | a chain of classes, the bodies on the stack |
| `DynamicList`, `DoubleSelect`, `ModalWindow` | the widgets of `js` | rows and white space of the list; the select and its two boxes; the window, what is in it, where that came from, answers to come |
| `PageProofs` | | the theorems about `CmsPanel`, `Accordion`, `FormUpload`, `ClassKit` and these, as `MCPageWidgets` instantiates them |

`MCTrees`, `MCCaches`, `MCKcfUpload`, `MCKcfBrowser`, `MCCalendar` and `MCPageWidgets`
put together parts that share no state, so that a behaviour is of one of them (`part`)
and the others stay as they were at first; a property of such a module is the
conjunction of named properties of its parts. Parts that do share state are composed
for good: `TaggableCache` over `CacheCounter`, `Calendar` over `CalendarDates`,
`CacheDrivers` over the four drivers. `MCTrees` gives TLC a symmetry set for the ids of
rows. The other modules are run as they are, with the constants of their `.cfg` files.

Definitions named `...Mutant` are wrong on purpose. Each is the definition after it
(or the one its name begins with) changed as a plausible bug would change it, and
the comment names the property that it violates when it takes its place.

### How the models abstract

* Rows, keys, values and names are model values. Identifiers matter only for
  equality; a path of `lmbMPTree` is a sequence of ids and slashes, in which
  `SUBSTRING`, `LIKE` and `strstr` mean what they mean in the string.
* Time is counted in seconds, as `time()` does, and the deadlines of the cache are
  compared as each driver compares them (the table keeps an entry one second longer).
* A call of a driver is one step in `CacheCounter` and `TaggableCache`. The table
  gives as much; the file driver does less, its steps are planned as a module of
  their own.
* In `RecordSave` the step of a save is the part of `_doSave` between two points at
  which another save can begin or an exception can be raised. Titles stand for all
  plain columns.
* The requests of KCFinder's folders and files are synchronous (`async: false`): the
  handler, the server's answer and what it does with it are one step, and the answer
  may be an error. Reads and posts of dropped files are not, and are two steps each.
* A path of KCFinder is the sequence of its names. The code compares paths as strings,
  and so do the models: `"a"` begins `"ab"`.
* A date of the calendar is the number of its day in the civil calendar; `Date` itself
  is modelled with its overflow into other months, and with summer time, which is what
  the roundings of weeks and days meet.
* Layout, texts and measures are left out, and animations keep their ends only.

## The runs

Runs that pass:

| run | instance | what it shows |
|---|---|---|
| `trees` | 5 ids, 2 identifiers, endpoints up to 10, paths of up to 11 ids and slashes | the intervals stay nested; parents, levels and intervals (or paths) agree; a move carries one subtree and nothing else; queries answer what `parent_id` says and paths lead back to their nodes (`AnswersAgree`); both tables implement `Tree`, the nested sets `OrderedTree` too, with interrupted operations for the nested sets and without for the paths |
| `caches` | 2 keys, 2 values, lifetimes of 0 to 2 seconds, 3 seconds; 1 counter up to 1, 2 processes | each driver, with the deadlines it leaves behind, implements the contract and reads back what is stored unless an old deadline overshadows it (`DriversServe`); the lock of a counter excludes; no call waits; in files the lock of the dead comes back |
| `tags` | 2 tags, 1 key, 2 processes of which one invalidates and flushes, 2 containers | a get that begins after a deleteByTag has returned never answers what it was meant for, whatever was read or stored in the meantime; in files, what was not invalidated stays |
| `record_save` | 2 courses, 1 lecture, an exception at any step | every save comes to an end, inserts once, with the foreign key of its course (`RowsAgree`); the request commits all or nothing |
| `kcf_upload` | 2 folders, 3 files, 2 closures, 4 uploads; 4 images of which one is none, 2 viewers | a file is stored where it was dropped; it is lost only when an interval runs out while a file of its closure is being read; the page comes to rest if every request is answered, and then no file is left behind, and the pane is fresh if what was dropped went to one folder (`Settled`). The image, its lock and the keys belong to the open viewer (`ViewerAgrees`), which can always be used again and selects the image it shows (`ViewerServes`) |
| `kcf_browser` | 3 folders, and a change that may make one whose name another begins, 2 animations; 2 folders with 3 files, one of them read-only, 1 timer, 2 acts | the pane and the mark are those of the open folder, which exists and is in sight; a menu's action meets the files it was asked for; the list has the files in their order and the selection of its rows; the clipboard has each file once |
| `calendar` | 2020 and 2021, weeks from Sunday or Monday, 3 days that may not be chosen; 2 fields, 3 dates; every hour; the boxes over two years, 4 timers | the marked cell is the date's, arrows and buttons go one step, numbers of weeks and days are right and printed dates are read back (`GridAgrees`), another year keeps the month (`GridSteps`); the popup listens while it is seen, and the clock and the three boxes show what is stored (`PartsAgree`); the popup writes its own field when a day is chosen (`PopupSteps`) |
| `page_widgets` | 2 tabs, a URL without and one with a query, 3 names; 4 panels; 2 elements, 2 requests; lists of up to 4 rows; 4 options of which two look alike; 4 classes | of the filter's boxes one is open and the cookie says which (`PanelAgrees`); one panel stays open, the window gives back what it took, rows and options are told as they are, parents run once (`WidgetsAgree`); only what is asked for moves (`OnlyAskedMoves`); slides, uploads and windows come to their end (`WidgetsServe`) |

Runs that show what the code does against what its tests or comments say:

| run | what happens |
|---|---|
| `mp_tree_delete` | A creation that stops between INSERT and the UPDATE of the path leaves a row with the empty path. `deleteNode` of this row deletes `LIKE '%'`: all rows. |
| `file_cache_delete` | `delete` of an expired entry removes its deadline and not its value, because it looks for the value as a reader does. The value can be read again, without a deadline. |
| `counter_lock` | In the table a lock is a row that INSERT creates. The row of a process that has died stays, whatever its deadline: the counter is locked for ever. |
| `record_try_save` | An exception leaves `_is_being_saved` set. After `trySave` has answered false, the next save is taken for a nested one: it does nothing, and `trySave` answers true. |

Other disagreements that came up on the way and that no run is kept for:

* `moveNode` of both trees puts a node beside a sibling of the same identifier, which
  `createNode` and `updateNode` refuse ("There's already a sibling with such an
  identifier"). `updateNode` accepts the empty identifier, which `createNode`
  refuses. `PathFindsNode` (in `AnswersAgree`) therefore speaks of trees without such nodes.
* `lmbMPTree::moveNode` after an interrupted operation can make a node the child of
  its own child, because it finds descendants by path.
* In the memory driver, and in the file driver with a prefix (`set` passes the key it
  has prefixed to `delete`, which prefixes it again), the deadline of an old value
  stays and hides a later value without one: `Overshadowed` in `CacheDrivers`.
* In files, `unlock` after the lock has expired removes the deadline of the lock and
  not the lock (state `"stuck"` in `CacheCounter`), as `delete` does of any entry.
* In the table, `add` without a lifetime stores a deadline of now, so that the version
  of a tag is gone a second later and with it all entries that have the tag:
  `NoNeedlessMiss` is stated for files.
* A course that is set and set back before a save leaves the property dirty and no
  column: the UPDATE has nothing to set and the database refuses it (`EmptyUpdate` in
  `RecordSave`).
* After a `trySave` that failed, a course whose row was rolled back keeps its id. A
  lecture saved with it afterwards has a foreign key to no row.
* Of two processes that invalidate a tag at once, one is refused the lock and gives up,
  or writes back an older version, and an entry that was invalidated is answered
  (`lmbTaggableCacheWrapper.class.php:113`). `Invalidators` has one process therefore.
* A lecture that has a course and is given another by its `course_id` is written with
  the old id by the next save, which finds the old course object in its property
  (`lmbActiveRecord.class.php:524`). `KeepsCourseObject` speaks of courses set as objects.

In the file browser, which the models follow and the properties are stated around:

* The file menu and its question read `_.dir` when they are answered
  (`091.menus.js:311`): after a change of folder they meet files of the same name
  there. `FileActionsStay` holds for menus that are opened while no folder is being
  hidden, and for the menus only: a user who opens another folder first closes them.
* Paths are compared without a slash (`090.folders.js:85`, `180`; `091.menus.js:458`):
  deleting or refreshing `a` also closes or leaves `ab`. A rename leaves the paths in the data of
  descendants as they were (`091.menus.js:422`), so that two nodes may have one path: the
  mark may then be on the other one, and a folder that gets its name back while it is
  collapsed hides the open folder. The history `renamed` excepts both.
* A folder is marked before the request that opens it (`090.folders.js:141`), and stays
  marked when that fails; a drop on the pane checks the mark and sends to `_.dir`
  (`110.dropUpload.js:61`, `68`).
* Closures of `initDropUpload` add up, for what `removeEventListener` is given was made
  just before (`110.dropUpload.js:97`): a drop on the pane is uploaded once for each.
  The interval of one drop empties the queue of the next (`217`); only the folder of
  the last file is looked at for the refresh (`219`); a request that fails is not
  handled (`188`) and leaves the interval running.
* The clipboard keeps files that were renamed or deleted with others
  (`091.menus.js:180`). An upload by the form selects its names in whatever folder is open
  (`060.toolbar.js:149`), and two share one iframe (`127`). The menu of several files
  counts read-only ones by another file's attribute (`091.menus.js:92`).
* In the viewer, an image that comes after the dialog is closed binds the arrow keys
  (`091.viewImage.js:155`); two viewers share one index; an image that cannot be loaded leaves the
  index at itself.

In the calendar:

* A month chosen in the box is set without regard to its days (`calendar.js:356`): from
  31 January, February is March. An arrow past the last year goes nearly a year back
  (`1093`), onto a disabled day it may go twice (`1036`). Enter, with a disabled date,
  chooses the cell of an earlier one (`1072`), which may be in a year outside the range.
  A year printed with two digits (`%y`) is read back for 1930 to 2029 only. `getDayOfYear` is one behind in summer
  (`1704`). "Today" closes an un-electric popup without storing (`700`). Keys do not
  call the handler: `ElectricFollows` excepts them.
* In `datewidget.js` a choice that is not complete makes a date of the value -1; an
  empty field becomes today's date when the page loads; a day that the new month does
  not have becomes the first; a leap year is every fourth; and a timer may select an
  option that is no longer there. A year or month that is chosen before the page has set
  its box is taken back by the timer, while the field keeps it: `FieldIsBoxes` excepts
  such choices by the history `early`.

In the control panel and the widgets:

* `cp.js:11` says that the cookie remembers whether the filter is shown. A click on the
  other box while one is open moves the form and turns the cookie nevertheless;
  `Remembered` excepts it. A URL with a query is never found in the cookie, of which it is
  looked up as a regular expression, and is added at each click until the browser takes
  no more.
* Escape leaves the modal window's element in the window, where the next opening
  destroys it; a question hides an overlay by a class name that no overlay has.
* `this.parent` is the object's, not the class's: a method that calls its parent's in
  a chain of three classes calls itself for ever (`ParentsRun` says of such a chain
  only that no body of it ends).
  Constructors of ancestors run without arguments on instances that are thrown away.
* `UploadProgress` passes `updateComplete` without its object, and polls once. In
  `FormUpload` an empty page that loads late ends the upload with an error.

### Bounds

* Trees: five rows are enough for a node that moves out of, into and past subtrees
  that have subtrees of their own, in all three branches of `moveNode`. `MaxBound` = 10
  is the endpoint a table of five rows needs, so that gaps of interrupted operations
  occur in the trees of up to four rows; the theorems have no such bound. A path of
  11 items is the root and four nodes below each other.
* Drivers: `MaxTime` = 3 lets an entry be stored, expire and be overwritten by one that
  lives longer; two keys show that none touches the other.
* `MaxValue` = 1 lets a counter go up, down and be lost (1, 0, none), and a version
  differ from the one before it. `MaxStored` = 2 is an entry and the one that replaces
  it while the first is being read.
* `record_save`: one lecture can be moved between two courses, each of which can be
  new, stored or being saved; the stack reaches all three objects.
* `kcf_upload`: two closures are what a second call of `initDropUpload` makes, and three
  files fill both queues while another is read; a fourth upload is one heard twice. The
  theorems have no such bounds. Two viewers are one and the one that is opened over it.
* `kcf_browser`: two animations are what a second click starts during the first; one
  change of the disk is followed by anything else the page can do; two acts are an act and one that
  meets what it left. The folders are the root, `a`
  and `a/ab`; the change may make an `ab` beside `a`, whose name begins that of the new one.
  The theorems have no such bounds.
* `calendar`: two years have a leap day, a year that has none and both ends of the
  range. The boxes of `DateWidget` span a leap year and another, with the months and days
  at the edges; four timers are those the page starts with and one of a change before they
  have run. The theorems have no such bounds.
* `page_widgets`: two tabs are the one that writes the cookie and the one that has read it
  before. Three names fill the cookie with those of the sidebar, the light version
  and one page, so that a fourth is refused. Four panels leave one
  that neither of two clicks meant. Four classes are one that inherits between two that
  do not.
* No bound cuts a call in the middle: each is in the guard of a first step.

### Fairness

`caches` and `counter_lock` assume that a process that does not die goes on with its
call (PHP code runs until it ends) and that time passes, so that a lock that nobody
holds expires. A process may die at any step, and no process ever has to call.
`caches` assumes besides that no live process is so slow that its lock expires
under it (`TimelySpec`); `counter_lock` does not (`SlowSpec`).
`record_save` assumes that a save that has begun goes on; what the caller does, and
whether the request ends, is not assumed.

In the browser, reads, requests, intervals, slides, timers and answers end, each by
itself and in any order, because the browser calls every callback in the end; a request
may end in an error wherever the code can be told of one. `ComesToRest` is stated for
requests that are answered. The user never has to do anything: no click, key or drop is
fair. The remaining runs check safety and assume nothing.

In `TaggableCache` no process dies or is delayed while it holds the lock of
a version: what then becomes of the lock is the subject of `counter_lock`.
`CHECK_DEADLOCK FALSE` is set where callers may stop calling, where requests
end, where a page may be at rest, and where a bound stops the clock.

## What is proved

The theorems hold for every value of the constants that their assumptions allow; the
runs check the same properties on one. Each module of proofs has an inductive invariant
as a conjunction of named parts, a lemma for each action (or each part that it can
disturb), and the theorems at its end. Theorems whose property a run checks under
`MCSpec` are stated for `MCSpec` or for the specification of the part that the
property is about.

`TreeProofs`, of the nested sets, for every set of ids and of identifiers and every
bound, with interrupted operations:

* `TypeCorrect`, `NestedAlways`, `ParentsAlwaysAgree`: `TypeOK`, `Nested` and
  `ParentsAgree` in every state
* `MovesOneSubtreeAlways`: `Spec => MovesOneSubtree`
* `NSImplementsTreeAlways`: `Spec => ImplementsTree`, the refinement of `Tree`
* `RowsByBoundsAlways`: the rows that a query by bounds finds, ancestors and children,
  are those that `parent_id` leads to
* `AnswersAgreeAlways`: `Spec => []AnswersAgree`: `getChildren` lists them in the order
  of the table, and the join of `getNodeByPath` finds the row that a path was made
  for, and no other

The inductive invariant is `IInv == TypeOK /\ Nested /\ LevelsGrow /\ ParentsAgree`.
`Nested` alone is not inductive. Whether the second branch of `moveNode` (the target
begins left of the source) may take source and target for disjoint depends on the
guard that refuses to move a node to its own parent, and so on `parent_id` agreeing
with the intervals. `LevelsGrow` (a row inside another is deeper) is what makes a
parent the innermost row around a node: it separates an ancestor further up, which
ends right of the source and belongs to the first branch, from the parent.
Everything is argued for two rows at a time: `RowFacts` and `PairFacts` give the
numbers of one and two rows, and for each operation the new endpoints of two
disjoint or nested rows are again disjoint or nested, by arithmetic. The three
branches of `moveNode` have a lemma each, and `MoveNodeAncestry` says for all of
them which pairs of rows enclose each other afterwards.

For the refinement, `Around(n)` (the rows whose intervals enclose that of n) is shown
to satisfy the recursion that defines `Tree`'s `Ancestors`. A recursion over rows has
one solution because levels fall towards the root; that is an induction over data,
and is done without the library's induction theorems, which take an operator: two
solutions differ at some smallest level (`Smallest`, from
`NatLessThanWellFounded` and `WFMin`), where the recursion makes them equal. That
every row without a parent begins at 1 (`RootFirst`) makes the root unique.

A path has an identifier for each level because as many rows are around a row as its
level says (`AroundCounted`, again by a smallest level), and the list of them, by
`c_left`, has at each place the row of that level (`ParentsInOrder`). So the join has a
way to the row it should find, from parent to child (`Way`); any other way that fits
the path would leave it first at some place, at which two siblings would have one
identifier (`PathFinds`).

`TreeProofs`, of the materialized paths, for every set of ids and identifiers, without
interrupted operations:

* `MPAgreesAlways`: `MCSpec => []MPAgrees`
* `MPImplementsTreeAlways`: `MCSpec => MPImplementsTree`
* `DeleteKeepsOthersAlways`: what the run `mp_tree_delete` refutes for interrupted
  operations holds without them

`PathInv` adds `PathsEnd` to the types and to `PathsAgree`: a path has three pieces for
the root and two for each level, and ends in the row's id and a slash. A prefix of a
path that is itself a path therefore ends with a level, not inside one, and `LIKE`,
`SUBSTRING` and `strstr` take whole subtrees. The ancestors by path satisfy the
recursion of `Tree`, and are its solution by the same smallest level.

`CacheProofs`, for all keys, values and lifetimes, and each of the drivers:

* `DriversTypeCorrect`: the store is well-typed
* `DriversServeAlways`: `Spec => DriversServe`, which is the refinement of
  `CacheContract` and that what was stored can be read

The proof of the refinement does not map actions to actions: `Sees` lists what a step
may do to what a reader sees (one key becomes an entry, or nothing; all become nothing;
what has expired goes when the clock ticks), `SeesIsContract` says that each is an
operation of the contract, and a lemma for each driver (`FileSees`, `MemorySees`, ...)
that its steps are of this list. What a driver leaves behind, a deadline without a
value or a value whose deadline has passed, is not in what a reader sees.

`CacheProofs`, for every set of counters, keys, tags and processes and for
both stores:

* `CounterTypeCorrect`, `ExclusiveAlways`: `TimelySpec => []Exclusive`
* `TaggedTypeCorrect`: `TaggedSpec => []TaggedTypeOK`
* `NoNeedlessMissAlways`: `TaggedSpec => NoNeedlessMiss`
* `NoStaleAlways`: `TaggedSpec => NoStale`, if no two processes invalidate

`Exclusive` needs that the lock of a process between lock and unlock is live, which
`add` does not replace; that holds because only the locks of the dead expire.
The others rest on `Base`: that invariant of the counters, and that containers, in the
store or in a process, have the tags they were begun with.
For the second, `Quiet` says of every container that is not suspect that its versions
are those of its tags or, while it is being prepared, become them: nothing but `add`
can touch such a counter, and `add` turns no number into another (`FirstVersion`).
For the third, `Sound` relates each version anybody has to the counter of its tag.
It is `Bounded`: the counter is not below it and never will be, not even when a call
writes that has read the counter before; and once a `deleteByTag` has written, it is
`Older` (`Keeps` says that a step preserves both). That what is read by then differs is
all `_isTagsValid` needs. With a second process that invalidates both fail: a call
that is refused the lock twice returns without having counted, and one that has read
the counter before the other wrote it writes the same number again.
The lock held alone, a container stored at most once (`Fresh`), and the
versions seen by a call under way (`Deletes`) are the rest of `Sound`.

`RecordSaveProofs`, for any number of courses and lectures:

* `RowsAgreeAlways`: `Spec => []RowsAgree`
* `SavedMeansStoredAlways`, `KeepsCourseObjectAlways`, `CommitsAllAlways`: the other
  three safety properties, where nobody calls `trySave` (`~ Tries`, as in the run;
  with `trySave` the run `record_try_save` refutes the first)

That no object has two rows rests on the flag
`_is_being_saved`, which `IInv` ties to the stack: the calls on it are for different
objects, all with the flag set (`FramesOK`), and what a call is to insert is new until
it has inserted it, whatever the calls above it do. New objects have no row, neither
in the transaction nor as committed (`TableOK` of both tables), so that the INSERT
adds the first one; an exception, which takes the table back to what is committed and
leaves ids and flags as they are, keeps both.
The other three need what each call has reached when another runs on top of it, and
so an invariant about frames and the frame above (`CallOK`): a lecture that waits in
`assign` waits for the very course of its property, a call in `collection` has its
own row written, and the row of an object differs from it in dirty fields only
(`Synced`). `SInv` says so until a request fails, and that a course that was meant
for a lecture is its property until it is its column.

`KcfUploadProofs`, for all folders, files, closures and uploads, and for all images
and viewers:

* `StoredWhereDroppedAlways`: `Spec => []StoredWhereDropped`
* `LossNeedsAReadAlways`: `Spec => LossNeedsARead`
* `SettledAlways`: `MCSpec => []Settled`
* `ViewerAgreesAlways`: `MCSpec => []ViewerAgrees`
* `SelectsShownAlways`: `MCSpec => Viewer!SelectsShown`, an action property

What is stored has come from a request, that from a read, that from a queue, and each
hands on the folder; `StoredWhereDropped` is inductive only together with the same of
everything on that way (`Inv`), for the code copies the folder from one object to the
next and never looks at what the page shows again. The second theorem needs besides
that a closure with files in its queue and its flag down is reading one (`Waits`):
`processUploadQueue` is called wherever that could fail. `Settled` needs to know that
work is left wherever something is still to come: the flag of a closure is up only
while it has a request or has lost one (`FlagOK`), and if everything went to one
folder, the pane is fresh or a closure has work left that ends in its refresh
(`FreshOK`). That the intervals of a closure stay countable is a count: reads, requests,
intervals and queue are together no more than the files dropped (`CountOK`).

For the viewer the invariant is about the one that has the page to itself
(`HasThePage`): every load under way is for it and for the current image, the lock is
up as long as there is one, and the keys are its own or nobody's. That a viewer is one
is a history (`astray`), and what a viewer that is not one meets is in the list of
disagreements above.

`KcfBrowserProofs`, for any folders on the disk, any files of any sizes, and any number
of changes, animations, timers and failed requests:

* `FolderShownAlways`, `OpenFolderInSightAlways`, `FileActionsStayAlways`: the
  three invariants of `KcfFolders`
* `FileListAlways`, `ClipboardAlways`: `MCSpec => []FileListAgrees` and
  `MCSpec => []ClipboardAgrees`

The invariant `FInv` says that each node of the tree is below another (`TreeOK`), what
an animation or indicator under way may still do to the tree (`AnimsOK`, `LoadingOK`),
that the menu was opened in the folder that is open and while nothing slid (`MenuOK`),
and how far the paths in the data of nodes may differ from where they are (`NamesOK`).
That what is collapsed does not hide the open folder is an argument about
prefixes of sequences of names. Attempting the proofs showed that two properties were
too strong, although the runs found nothing in their bounds: a rename leaves old
paths in the data of descendants, so that a second folder may get a path that a node
still has ("twins"), and the mark may then be on the wrong one of the two; and a folder
that is renamed, collapsed while it has another name and renamed back hides the open
folder. The properties now except what the history `renamed` tells.

For the files `FilesInv` says of the list that it is the folder's files sorted, unless a
request failed (`ListOK`); of the rows that they are that list when no timer is left to
draw them, and that rows, selection and the text under the pane name files that are
there (`RowsOK`); of a menu that it names each file once, and of the clipboard's menu
that it is the clipboard (`OpenOK`); of the clipboard that it has no file twice and
none that is gone, but for those that the page does not look for (`stale`, `ClipOK`).
`BeforeOrders` shows that the order of `orderFiles` is a total one; a name decides
where sizes are equal.

`PageProofs`, for all tabs and pages, and for lists, selects, accordions and chains of
classes of any size:

* `PanelAgreesAlways`: `MCSpec => []PanelAgrees`
* `WidgetsAgreeAlways`: `MCSpec => []WidgetsAgree`
* `OnlyAskedMovesAlways`: `MCSpec => OnlyAskedMoves`, an action property

Each part has its invariant. That of the panel and of the accordion are what the
properties say, for the types already say what a panel that slides will be. An upload
tells its caller once because a callback waits for each load and the form, which the
first call takes away, carries the iframe (`UploadInv`). The modal window gives back
what it took because, as long as it is used for one thing at a time, it waits for one
answer at most (`ModalInv`). Rows keep indexes of their own below the next one
(`ListInv`); that what `InsertAt`, `RemoveAt` and the exchange return comes from a
different place each (`Comes`) is proved from their definitions. `KitInv` lists the
few ways in which the bodies of a chain of methods can stand on the stack.
That a button moves one row whatever white space is among them is how filtering meets
each change of the sequence (`KeptInserted`, `KeptRemoved`, `KeptSwaps`, `KeptPasses`):
the positions of what is kept (`Picks`) are shifted or exchanged, and the positions
after the change are the only ones that rise through what is kept then. The boxes of a
select list what is selected and what is not (`BoxesShow`).

`OrderingProofs`, on which the proofs about the queries, the files, the lists and the selects rest, for every finite set, sequence and
strict total order:

* `ListedIs`, `ListedOnly`: a list has each element once, each before those that are
  greater, and is the only sequence that has
* `FilteredIs`: what is kept of a sequence is what is in the set, and nothing twice that
  was not twice before; `FilteredPicks`, `FilteredOnly`: it is what stands at rising
  positions, and they determine it

`CalendarProofs`, for all years after 100, all disabled dates, any months of summer
time and any first day of the week; for any fields and dates of the popup; and for boxes
of any years:

* `GridAgreesAlways`: `MCSpec => []GridAgrees`
* `GridStepsAlways`: `MCSpec => GridSteps`
* `PartsAgreeAlways`: `MCSpec => []PartsAgree`
* `PopupStepsAlways`: `MCSpec => PopupSteps`

The grid needs the civil calendar first. `Before`, with its divisions by 4, 100 and 400,
grows by the length of each year (`YearLength`), the months' offsets by the lengths of
the months, and so a date has one year, month and day (`DatedOnce`); that it has one at
all is the year of smallest number that ends after it (`KnownDate`). From this follow
what `CHOOSE` finds in `Civil` and what `setFullYear`, `SetDateOnly`, `NavDate` and
`Clamp` return. The invariant `GridInv` says that date, grid and current cell are `Good`:
if the current cell shows its own date, the grid is that of the date's month, and if the
grid is that and the date is not disabled, the current cell has the date. It is inductive
only with a statement about cells that are out of date (`ElPlaced`): while other months
are hidden, a current cell is where it was in the grid of its own month, so that in
another month's grid it can show its date only by being in both, and two months begin
four weeks apart. Attempting it showed that the date may leave the range
(`CalendarTypeOK` says how), that the boxes of a page may be changed before their first
timers have run, and that a text with a two-digit year is not read back for every year
offered.
The week number is right although its argument may be an hour off in summer, for a
Thursday is twelve hours from where the rounding changes (`GridWeeks`).

`PopupInv` and `ClockInv` are what the properties say. For the boxes every timer under way
carries the year or month chosen last (`TimersCarry`), but for choices made too early,
and the last of them a day that is offered (`LastIsOffered`).

### What the proofs assume

Assumptions on constants, which TLC evaluates in the runs: `NSTreeConstants`,
`CacheCounterConstants`, `TaggableCacheConstants`, `RecordSaveConstants`,
`UploadAssumption`, `ViewerAssumption`, `FoldersAssumption`, `FilesAssumption`,
`PageAssumption`. They say that special values (no parent, no entry, no course) are none
of the ordinary ones, that bounds and sizes of files are numbers, and that options are a
list. `RangeConstants` has the range of the calendar after the year
100, for `parseDate` takes smaller years for those of a century, and today in it and
not disabled. `CalendarConstants` has the page's date among those that the boxes offer,
and among their years no century that is not a leap year, for the boxes take every
fourth year for one. `MPTreeConstants` and `CacheConstants` say the same and are
hypotheses of the theorems instead; `~ Tries` and "no two processes invalidate" are
hypotheses about the callers, and the disagreements above show why they are there.

### What is only model-checked

* Liveness (`WaitFree`, `FileLockComesBack`, `SaveReturns`, `ComesToRest`,
  `LockIsReleased` of `ViewerServes`, `WidgetsServe`), for fairness is beyond the prover.
* `ImplementsOrderedTree`: that renumbering keeps the order of siblings. The order is
  a list (`childrenOf`) for each of which every operation would need what
  `KeptInserted` and its like are for a list of rows. That the same operations
  implement the tree without the order is proved (`NSImplementsTreeAlways`).

## What is planned

In this order; each module with its runs and mutants.

1. `CacheFile`: the file driver at the granularity of file operations (exists, write,
   unlink, `lmbFs::safeWrite`), several processes; `add` as a check and a write, and
   so the lock that is an `add`. A `flush` among other calls of `TaggableCache`.
2. `MintCache`: `lmbMintCacheWrapper`, whose `get` writes an expired value back for
   a while so that one process recomputes it.
3. `NSTreeClients`: two clients of a tree between whose statements the other's run.
4. `RequestPipeline`: the filters of `web_app` in their order, the response, the
   session with `lmbSessionDbStorage` (SELECT, then INSERT or UPDATE) and the
   transaction of `RecordSave`, with exceptions and a commit that fails.
5. `Toolkit`: save and restore of tool sets as a stack discipline; `Taskman`: the walk
   over dependencies; `Acl`: inheritance of roles and resources against a reference
   definition; `CachedIni`: file times.
6. In the browser: tabs and the progress of uploads in the control panel; choosing
   several days in the calendar.
7. Proofs: `ImplementsOrderedTree`, from `ListedOnly`: the list of children after an
   operation is the one that has them in the order of the new endpoints.

## What is not modelled

* Two clients between the statements of one tree operation, and the file driver's
  steps: planned above. `lmbCacheMemcacheConnection` passes calls on to a server
  that is not in the repository.
* `get` of the cache with an array of keys is one `get` for each. The logging and
  profiling decorators change no state.
* Of `active_record`: queries, `destroy`, has_one and many-to-many relations, lazy
  loading of related objects, inheritance, aggregated objects. The object that
  `getCourse` loads into a property is an object that was set there before.
* A commit that fails, a connection that is lost, and other requests that write the
  same rows.
* Of the scripts: vendored libraries (CKEditor, jQuery and its plugins, prototype, the
  unit test library, XRegExp) and languages of the calendar; `kcfinder/cache/base.js`,
  which is KCFinder's scripts in one file, and `js/shared/Limb`, which is `limb` in an
  older state. They are most of the lines of JavaScript in the repository. Of Limb's own: geometry of popup windows,
  detection of browsers, drawing and dragging of the calendar, choosing several days,
  downloads, and what a file browser returns to its editor.
* The server of KCFinder: its answers are what the page can get, an error included.
* The packages of the last row of the table above: they convert text or wrap
  something, and a specification would repeat their code.
