----------------------------- MODULE AdminShell -----------------------------
(***************************************************************************)
(* What surrounds the pages of the admin in one browser tab and outlives   *)
(* them: the sidebar with its submenu, the dropdowns of the header, the    *)
(* dialogs that stop the page behind them from scrolling, the language. A  *)
(* commit of React, with the effects that follow it, is one step: effects  *)
(* run before the next event is handled.                                   *)
(*                                                                         *)
(* With the keyboard every control can be reached at any time, those       *)
(* behind a dialog too: the dialogs keep no focus.                         *)
(*                                                                         *)
(* As in BookApi, Y_X is Y with a mistake in it.                           *)
(***************************************************************************)
EXTENDS Naturals

CONSTANTS
  Locale,   \* the languages in use: "en", the default, and others
  Card,     \* the cards of the profile, each with a dialog
  Chart     \* the cards of the dashboard that have a dropdown

ASSUME ShellAssumption ==
  /\ "en" \in Locale /\ Locale \subseteq {"en", "fa", "ar"}
  /\ Card \subseteq {"UserMetaCard", "UserInfoCard", "UserAddressCard"}
  /\ Chart \subseteq {"MonthlySalesChart", "MonthlyTarget", "DemographicCard"}

VARIABLES
  width,         \* of the window: below 768 pixels, below 1024, or more
  isExpanded,    \* SidebarContext: the setting for wide windows
  isMobileOpen,  \* SidebarContext: the sidebar lies over the page
  isMobile,      \* SidebarContext: below 768 at the last resize
  isHovered,     \* SidebarContext: the mouse is on a collapsed sidebar
  pathname,      \* the page
  manual,        \* manualSubmenuState: the page of the last toggle and what it left
  measured,      \* subMenuHeight has an entry
  height,        \* the height the browser applies to the submenu, "none" if not rendered
  dialogs,       \* the open dialogs of the page
  locked,        \* body.style.overflow is "hidden"
  isApplicationMenuOpen,  \* AppHeader: its second row is shown on narrow windows too
  dropdowns,     \* the open dropdowns
  locale, dir,   \* LanguageContext, and the direction of the document
  cookie,        \* admin-locale
  toggled        \* history: the pages the submenu has been toggled on

sidebar == <<isExpanded, isMobileOpen, isMobile, isHovered>>
submenu == <<manual, measured, height>>
modal   == <<dialogs, locked>>
header  == <<isApplicationMenuOpen, dropdowns>>
lang    == <<locale, dir, cookie>>
vars    == <<width, sidebar, pathname, submenu, modal, header, lang, toggled>>

Width == {"phone", "tablet", "desktop"}
Page  == {"/", "/book/list", "/profile"}

HeaderDropdown == {"notification", "user"}
Dropdown       == HeaderDropdown \cup Chart

\* The dropdowns on each page: those of the header, and on the dashboard its cards'.
Dropdowns == [p \in Page |-> HeaderDropdown \cup IF p = "/" THEN Chart ELSE {}]

\* The dialogs on each page: BookDeleteModal, and those of the profile's cards.
Dialogs == [p \in Page |-> CASE p = "/"          -> {}
                             [] p = "/book/list" -> {"BookDeleteModal"}
                             [] p = "/profile"   -> Card]

----------------------------------------------------------------------------
(* The sidebar.                                                            *)

\* isExpanded as the context hands it out.
Expanded(mobile, expanded) == ~mobile /\ expanded

\* The sidebar shows names and submenus, at its full width.
Shown(mobile, expanded, open, hovered) == Expanded(mobile, expanded) \/ open \/ hovered

shown == Shown(isMobile, isExpanded, isMobileOpen, isHovered)

isRtl(l) == l \in {"fa", "ar"}

\* The margin AdminLayout gives the content on a wide window: its side and its width.
mainContentMargin ==
  <<IF isRtl(locale) /\ ~isMobileOpen THEN "right" ELSE "left",
    IF isMobileOpen THEN 0 ELSE IF Expanded(isMobile, isExpanded) \/ isHovered THEN 290 ELSE 90>>

\* Where AppSidebar is on a wide window, by the direction of the document.
sidebarSpace == <<IF dir = "rtl" THEN "right" ELSE "left", IF shown THEN 290 ELSE 90>>

\* The navigation has one item with a submenu, Dashboard, whose only entry is "/".
routeMatchedSubmenu(path) == path = "/"

\* Mistake: the choice of one page holds for all.
openSubmenu_Untagged(choice, path) == choice.submenu

openSubmenu(choice, path) ==
  IF choice.pathname = path THEN choice.submenu ELSE routeMatchedSubmenu(path)

\* Mistake: the height is taken when the submenu is toggled, not when it opens.
Measures_OnToggle(choice, path) == choice # manual

\* The layout effect runs when openSubmenu has changed.
Measures(choice, path) == openSubmenu(choice, path) # openSubmenu(manual, pathname)

\* A commit with what the sidebar shows, the choice and the page after it. The height of an
\* open submenu that has not been measured is no length: the browser keeps what it has,
\* and on a new element that is its natural height.
Commit(visible, choice, path) ==
  /\ manual' = choice
  /\ measured' = (measured \/ (visible /\ openSubmenu(choice, path) /\ Measures(choice, path)))
  /\ height' = IF ~visible THEN "none"
               ELSE IF ~openSubmenu(choice, path) THEN "0px"
               ELSE IF measured' THEN "full"
               ELSE IF height = "none" THEN "natural" ELSE height

\* The sidebar commits after a change of the context.
Rerender == Commit(Shown(isMobile', isExpanded', isMobileOpen', isHovered'), manual, pathname)

\* Mistake: the limit of the header's button.
handleResize_Wide(w) == isMobile' = (w # "desktop") /\ isMobileOpen' = (isMobileOpen /\ w # "desktop")

\* Mistake: the overlay is left when the window widens.
handleResize_StaysOpen(w) == isMobile' = (w = "phone") /\ UNCHANGED isMobileOpen

handleResize(w) ==
  /\ isMobile' = (w = "phone")
  /\ isMobileOpen' = (isMobileOpen /\ w = "phone")

Resize(w) ==
  /\ width' = w
  /\ handleResize(w)
  /\ UNCHANGED <<isExpanded, isHovered>> /\ Rerender
  /\ UNCHANGED <<pathname, modal, header, lang, toggled>>

toggleSidebar       == isExpanded' = ~isExpanded /\ UNCHANGED isMobileOpen
toggleMobileSidebar == isMobileOpen' = ~isMobileOpen /\ UNCHANGED isExpanded

\* The button of the header.
handleToggle ==
  /\ IF width = "desktop" THEN toggleSidebar ELSE toggleMobileSidebar
  /\ UNCHANGED <<isMobile, isHovered>> /\ Rerender
  /\ UNCHANGED <<width, pathname, modal, header, lang, toggled>>

\* A click beside the overlay; the backdrop is hidden on wide windows.
Backdrop ==
  /\ isMobileOpen /\ width # "desktop"
  /\ isMobileOpen' = FALSE
  /\ UNCHANGED <<isExpanded, isMobile, isHovered>> /\ Rerender
  /\ UNCHANGED <<width, pathname, modal, header, lang, toggled>>

\* The mouse enters the sidebar, where it is on the screen, or leaves it.
Hover(inside) ==
  /\ inside => ~Expanded(isMobile, isExpanded) /\ (width = "desktop" \/ isMobileOpen)
  /\ isHovered' = inside
  /\ UNCHANGED <<isExpanded, isMobileOpen, isMobile>> /\ Rerender
  /\ UNCHANGED <<width, pathname, modal, header, lang, toggled>>

handleSubmenuToggle ==
  /\ Commit(shown, [pathname |-> pathname, submenu |-> ~openSubmenu(manual, pathname)], pathname)
  /\ toggled' = toggled \cup {pathname}
  /\ UNCHANGED <<width, sidebar, pathname, modal, header, lang>>

----------------------------------------------------------------------------
(* Dialogs.                                                                *)

\* Mistake: an effect without a cleanup.
Cleanup_None(overflow) == overflow

\* The cleanup of Modal's effect when it is unmounted.
Cleanup(overflow) == FALSE

openModal(d) == dialogs' = dialogs \cup {d}

\* A dialog opens, and its effect runs. A second one can be opened over the first with
\* the keyboard.
OpenDialog(d) ==
  /\ d \in Dialogs[pathname] \ dialogs
  /\ openModal(d) /\ locked' = TRUE
  /\ UNCHANGED <<width, sidebar, pathname, submenu, header, lang, toggled>>

\* A click beside the dialog, or its buttons. Closing any lets the page scroll.
CloseDialogs(closed) ==
  /\ closed # {}
  /\ dialogs' = dialogs \ closed /\ locked' = FALSE
  /\ UNCHANGED <<width, sidebar, pathname, submenu, header, lang, toggled>>

\* Escape, which every open dialog hears.
handleEscape == CloseDialogs(dialogs)

\* Save on a card of the profile stores nothing: its dialog closes.
handleSave(card) == card \in dialogs /\ CloseDialogs({card})

\* The cards of the dashboard are mounted with their dropdowns closed.
Remounted(open) == open \ Chart

\* A link, or the browser's Back. The layout stays, the page is unmounted, and the dialogs
\* of the next one are mounted closed.
Navigate(path) ==
  /\ path # pathname
  /\ pathname' = path
  /\ dialogs' = {} /\ dropdowns' = Remounted(dropdowns)
  /\ locked' = IF Dialogs[path] # {} THEN FALSE
               ELSE IF Dialogs[pathname] # {} THEN Cleanup(locked) ELSE locked
  /\ Commit(shown, manual, path)
  /\ UNCHANGED <<width, sidebar, isApplicationMenuOpen, lang, toggled>>

----------------------------------------------------------------------------
(* The header and the dropdowns. A press is a mousedown, heard by the      *)
(* document, and then a click: a click on any other control is one         *)
(* elsewhere, and its action.                                              *)

\* The second row of the header, with the language and the dropdowns, is on the screen.
HeaderShown == width = "desktop" \/ isApplicationMenuOpen

\* Its button is hidden on wide windows. Nothing but loading a page resets the state.
toggleApplicationMenu ==
  /\ width # "desktop"
  /\ isApplicationMenuOpen' = ~isApplicationMenuOpen
  /\ UNCHANGED <<width, sidebar, pathname, submenu, modal, dropdowns, lang, toggled>>

\* Where a press lands: on the toggle of a dropdown, on one of its items, which are alike
\* in closing it, inside it on none, such as the button to sign out, or elsewhere.
Toggle == {"toggle"} \X HeaderDropdown
Item   == {"item"} \X HeaderDropdown
Inside == {"inside"} \X HeaderDropdown

ChartToggle == {"toggle"} \X Chart
ChartItem   == {"item"} \X Chart

Target == Toggle \cup Item \cup Inside \cup ChartToggle \cup ChartItem \cup {<<"elsewhere", "page">>}

\* Mistake: a press on a toggle counts as outside.
handleClickOutside_Toggles(open, target) ==
  IF target[1] \in {"item", "inside"} THEN open \cap {target[2]} ELSE {}

\* Every open dropdown closes that neither holds the target nor meets a .dropdown-toggle.
handleClickOutside(open, target) ==
  CASE target[1] = "toggle"               -> open
    [] target[1] \in {"item", "inside"} -> open \cap {target[2]}
    [] target[1] = "elsewhere"            -> {}

toggleDropdown(open, d) == IF d \in open THEN open \ {d} ELSE open \cup {d}
closeDropdown(open, d)  == open \ {d}

\* What the click does after the mousedown.
Clicked(open, target) ==
  CASE target[1] = "toggle" -> toggleDropdown(open, target[2])
    [] target[1] = "item"   -> closeDropdown(open, target[2])
    [] OTHER                -> open

\* With the keyboard there is no mousedown.
Press(target, keyboard) ==
  /\ target \in Toggle \cup Item \cup Inside => HeaderShown
  /\ target \in ChartToggle \cup ChartItem => target[2] \in Dropdowns[pathname]
  /\ target[1] \in {"item", "inside"} => target[2] \in dropdowns
  /\ dropdowns' = Clicked(IF keyboard THEN dropdowns ELSE handleClickOutside(dropdowns, target), target)
  /\ UNCHANGED <<width, sidebar, pathname, submenu, modal, isApplicationMenuOpen, lang, toggled>>

----------------------------------------------------------------------------
(* The language.                                                           *)

\* The languages there are dictionaries for.
isLocale(l) == l \in Locale

\* RootLayout, on the server: the language of the cookie.
initialLocale == IF isLocale(cookie) THEN cookie ELSE "en"

\* The effect on the document's element.
SetDirection(l) == dir' = IF isRtl(l) THEN "rtl" ELSE "ltr"

\* LanguageSwitcher is in the header.
setLocale(l) ==
  /\ HeaderShown
  /\ locale' = l /\ cookie' = l
  /\ SetDirection(l)
  /\ UNCHANGED <<width, sidebar, pathname, submenu, modal, header, toggled>>

\* The cookie changes: it is cleared, or another tab sets the language.
OtherTab(l) ==
  /\ cookie' = l
  /\ UNCHANGED <<width, sidebar, pathname, submenu, modal, header, locale, dir, toggled>>

----------------------------------------------------------------------------
\* A page is loaded: everything starts anew, and the providers' effects run. The submenu
\* starts as if it had been closed by hand, on "/" too.
Load(path) ==
  /\ pathname' = path
  /\ isExpanded' = TRUE /\ isMobileOpen' = FALSE /\ isHovered' = FALSE
  /\ isMobile' = (width = "phone")
  /\ manual' = [pathname |-> path, submenu |-> FALSE] /\ measured' = FALSE
  /\ height' = IF width = "phone" THEN "none" ELSE "0px"
  /\ dialogs' = {} /\ locked' = FALSE /\ isApplicationMenuOpen' = FALSE /\ dropdowns' = {}
  /\ locale' = initialLocale /\ cookie' = initialLocale
  /\ dir' = IF isRtl(initialLocale) THEN "rtl" ELSE "ltr"
  /\ toggled' = {}
  /\ UNCHANGED width

Init ==
  /\ width \in Width /\ pathname \in Page
  /\ isExpanded = TRUE /\ isMobileOpen = FALSE /\ isHovered = FALSE
  /\ isMobile = (width = "phone")
  /\ manual = [pathname |-> pathname, submenu |-> FALSE] /\ measured = FALSE
  /\ height = IF width = "phone" THEN "none" ELSE "0px"
  /\ dialogs = {} /\ locked = FALSE /\ isApplicationMenuOpen = FALSE /\ dropdowns = {}
  /\ locale = "en" /\ cookie = "en" /\ dir = "ltr"
  /\ toggled = {}

Next == \/ \E w \in Width : Resize(w)
        \/ handleToggle \/ Backdrop \/ handleSubmenuToggle
        \/ \E b \in BOOLEAN : Hover(b)
        \/ \E d \in UNION {Dialogs[p] : p \in Page} : OpenDialog(d)
        \/ \E card \in Card : handleSave(card)
        \/ handleEscape \/ \E d \in dialogs : CloseDialogs({d})
        \/ \E p \in Page : Navigate(p) \/ Load(p)
        \/ toggleApplicationMenu
        \/ \E t \in Target, keyboard \in BOOLEAN : Press(t, keyboard)
        \/ \E l \in Locale : setLocale(l) \/ OtherTab(l)
        \/ OtherTab("")

Spec == Init /\ [][Next]_vars

----------------------------------------------------------------------------
(* Properties.                                                             *)

\* Types; the context knows a narrow window for one, whatever the order of resizes.
TypeOK ==
  /\ width \in Width /\ pathname \in Page
  /\ {isExpanded, isMobileOpen, isMobile, isHovered, measured, locked,
      isApplicationMenuOpen} \subseteq BOOLEAN
  /\ isMobile = (width = "phone")
  /\ manual \in [pathname : Page, submenu : BOOLEAN]
  /\ height \in {"none", "0px", "natural", "full"}
  /\ dialogs \subseteq Dialogs[pathname]
  /\ dropdowns \subseteq Dropdowns[pathname] /\ toggled \subseteq Page
  /\ locale \in Locale /\ cookie \in Locale \cup {""} /\ dir \in {"ltr", "rtl"}

\* On a wide window the content lies beside the sidebar, never under it and with no gap,
\* through toggles, hovering, resizes across both limits and changes of the language: two
\* components compute it from different state (AdminLayout, AppSidebar).
ContentBesideSidebar == width = "desktop" => mainContentMargin = sidebarSpace

\* A submenu that is open in a sidebar that shows it has a height, whether it opened by a
\* click or a route, in a sidebar collapsed or not (AppSidebar's layout effect).
OpenSubmenuShows == shown /\ openSubmenu(manual, pathname) => height # "0px"

\* On a page where nobody toggled it, the submenu is open only if the page is in it: a
\* choice made on one page does not follow the user to the next.
SubmenuStaysOnPage ==
  pathname \notin toggled /\ openSubmenu(manual, pathname) => routeMatchedSubmenu(pathname)

\* A page that does not scroll has a dialog open: however the dialogs were closed, and
\* also after the user left the page with one open, no page stays stuck (Modal's effect).
PageScrolls == locked => dialogs # {}

\* A press on the toggle of an open dropdown closes it and on that of a closed one opens
\* it: what the document does at the mousedown and the button at the click do not undo
\* each other (Dropdown, NotificationDropdown, UserDropdown, the cards of the dashboard).
PressToggles ==
  [][\A d \in Dropdown, keyboard \in BOOLEAN :
       Press(<<"toggle", d>>, keyboard) => (d \in dropdowns' <=> d \notin dropdowns)]_vars
=============================================================================
