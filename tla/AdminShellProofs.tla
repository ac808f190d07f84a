-------------------------- MODULE AdminShellProofs --------------------------
(***************************************************************************)
(* Proofs about AdminShell, for any of the languages it knows: what the    *)
(* sidebar, the dialogs and the dropdowns show after any sequence of       *)
(* events.                                                                 *)
(***************************************************************************)
EXTENDS AdminShell, TLAPS

\* A wide window has no overlay, and the document has the direction of its language.
WideIsPlain ==
  /\ width = "desktop" => ~isMobileOpen
  /\ dir = IF isRtl(locale) THEN "rtl" ELSE "ltr"

\* A submenu that is open has not been given the height of a closed one.
HeightFits == height = "0px" => ~openSubmenu(manual, pathname)

\* Only a toggle leaves a submenu open by hand.
ChoiceIsToggled == manual.submenu => manual.pathname \in toggled

IInv == TypeOK /\ WideIsPlain /\ HeightFits /\ ChoiceIsToggled /\ PageScrolls

LEMMA OpenIsBoolean ==
  ASSUME NEW choice \in [pathname : Page, submenu : BOOLEAN], NEW path \in Page
  PROVE  openSubmenu(choice, path) \in BOOLEAN
<1>1. choice.submenu \in BOOLEAN /\ routeMatchedSubmenu(path) \in BOOLEAN
  BY DEF routeMatchedSubmenu
<1>2. QED
  BY <1>1 DEF openSubmenu

\* A commit gives the submenu its height back when it opens.
LEMMA CommitFits ==
  ASSUME IInv, NEW visible \in BOOLEAN, NEW choice \in [pathname : Page, submenu : BOOLEAN],
         NEW path \in Page, Commit(visible, choice, path), pathname' = path
  PROVE  /\ manual' = choice /\ measured' \in BOOLEAN
         /\ height' \in {"none", "0px", "natural", "full"}
         /\ HeightFits'
<1> DEFINE now == openSubmenu(choice, path)
           old == openSubmenu(manual, pathname)
<1>1. now \in BOOLEAN /\ old \in BOOLEAN
  BY OpenIsBoolean DEF IInv, TypeOK
<1>2. /\ manual' = choice
      /\ measured' = (measured \/ (visible /\ now /\ now # old))
      /\ height' = IF ~visible THEN "none"
                   ELSE IF ~now THEN "0px"
                   ELSE IF measured' THEN "full"
                   ELSE IF height = "none" THEN "natural" ELSE height
  BY DEF Commit, Measures
<1>3. height = "0px" => ~old
  BY DEF IInv, HeightFits
<1>4. openSubmenu(manual, pathname)' = now
  BY <1>2
<1> HIDE DEF now, old
<1>5. measured' \in BOOLEAN
  BY <1>2, Zenon DEF IInv, TypeOK
<1>6. height \in {"none", "0px", "natural", "full"}
  BY DEF IInv, TypeOK
<1>7. height' \in {"none", "0px", "natural", "full"}
  BY <1>2, <1>6, Zenon
<1>8. height' = "0px" => ~now
  <2>1. ASSUME now, height' = "0px" PROVE FALSE
    <3>1. visible /\ ~measured' /\ height = "0px"
      BY <1>2, <2>1
    <3>2. QED
      BY <1>1, <1>2, <1>3, <2>1, <3>1
  <2>2. QED
    BY <2>1
<1>9. QED
  BY <1>2, <1>4, <1>5, <1>7, <1>8 DEF HeightFits

LEMMA InitInvariant == Init => IInv
<1> SUFFICES ASSUME Init PROVE IInv
  OBVIOUS
<1>1. TypeOK
  <2>1. {isExpanded, isMobileOpen, isMobile, isHovered, measured, locked, isApplicationMenuOpen} \subseteq BOOLEAN
    BY Zenon DEF Init
  <2>2. manual \in [pathname : Page, submenu : BOOLEAN]
    BY DEF Init
  <2>3. locale \in Locale
    BY ShellAssumption DEF Init, ShellAssumption
  <2>4. QED
    BY <2>1, <2>2, <2>3 DEF Init, TypeOK
<1>2. WideIsPlain /\ PageScrolls
  BY DEF Init, WideIsPlain, PageScrolls, isRtl
<1>3. HeightFits /\ ChoiceIsToggled
  BY DEF Init, HeightFits, ChoiceIsToggled, openSubmenu
<1>4. QED
  BY <1>1, <1>2, <1>3 DEF IInv

\* A change of the sidebar's context, and the commit that follows.
LEMMA SidebarInvariant ==
  ASSUME IInv, Rerender, UNCHANGED <<pathname, modal, header, lang, toggled>>,
         width' \in Width, isMobile' = (width' = "phone"),
         isExpanded' \in BOOLEAN, isMobileOpen' \in BOOLEAN, isHovered' \in BOOLEAN,
         width' = "desktop" => ~isMobileOpen'
  PROVE  IInv'
<1> DEFINE visible == Shown(isMobile', isExpanded', isMobileOpen', isHovered')
<1>1. visible \in BOOLEAN
  BY Zenon DEF Shown, Expanded
<1>2. manual \in [pathname : Page, submenu : BOOLEAN] /\ pathname \in Page
  BY DEF IInv, TypeOK
<1>3. Commit(visible, manual, pathname)
  BY DEF Rerender
<1> HIDE DEF visible
<1>4. /\ manual' = manual /\ measured' \in BOOLEAN
      /\ height' \in {"none", "0px", "natural", "full"} /\ HeightFits'
  BY <1>1, <1>2, <1>3, CommitFits
<1>5. isMobile' \in BOOLEAN
  BY Zenon
<1>6. TypeOK'
  BY <1>4, <1>5 DEF IInv, TypeOK, modal, header, lang
<1>7. WideIsPlain' /\ ChoiceIsToggled' /\ PageScrolls'
  BY <1>4 DEF IInv, WideIsPlain, ChoiceIsToggled, PageScrolls, modal, header, lang
<1>8. QED
  BY <1>4, <1>6, <1>7 DEF IInv

LEMMA SidebarSteps ==
  ASSUME IInv, \/ \E w \in Width : Resize(w)
               \/ handleToggle \/ Backdrop \/ \E b \in BOOLEAN : Hover(b)
  PROVE  IInv'
<1>1. /\ isMobile = (width = "phone") /\ width \in Width
      /\ isExpanded \in BOOLEAN /\ isMobileOpen \in BOOLEAN /\ isHovered \in BOOLEAN
      /\ width = "desktop" => ~isMobileOpen
  BY Zenon DEF IInv, TypeOK, WideIsPlain
<1>2. ASSUME NEW w \in Width, Resize(w) PROVE IInv'
  <2>1. /\ width' = w /\ isMobile' = (w = "phone") /\ isMobileOpen' = (isMobileOpen /\ w = "phone")
        /\ UNCHANGED <<isExpanded, isHovered, pathname, modal, header, lang, toggled>> /\ Rerender
    BY <1>2 DEF Resize, handleResize
  <2>2. isMobileOpen' \in BOOLEAN /\ (width' = "desktop" => ~isMobileOpen')
    BY <2>1
  <2>3. QED
    BY <1>1, <2>1, <2>2, SidebarInvariant
<1>3. CASE handleToggle
  <2>1. /\ UNCHANGED <<width, isMobile, isHovered, pathname, modal, header, lang, toggled>> /\ Rerender
        /\ isExpanded' \in BOOLEAN /\ isMobileOpen' \in BOOLEAN
        /\ width = "desktop" => isMobileOpen' = isMobileOpen
    BY <1>1, <1>3, Zenon DEF handleToggle, toggleSidebar, toggleMobileSidebar
  <2>2. QED
    BY <1>1, <2>1, SidebarInvariant
<1>4. CASE Backdrop
  <2>1. /\ UNCHANGED <<width, isExpanded, isMobile, isHovered, pathname, modal, header, lang, toggled>>
        /\ Rerender /\ isMobileOpen' = FALSE
    BY <1>4 DEF Backdrop
  <2>2. QED
    BY <1>1, <2>1, SidebarInvariant
<1>5. ASSUME NEW b \in BOOLEAN, Hover(b) PROVE IInv'
  <2>1. /\ UNCHANGED <<width, isExpanded, isMobile, isMobileOpen, pathname, modal, header, lang, toggled>>
        /\ Rerender /\ isHovered' = b
    BY <1>5 DEF Hover
  <2>2. QED
    BY <1>1, <2>1, SidebarInvariant
<1>6. QED
  BY <1>2, <1>3, <1>4, <1>5

LEMMA ShownIsBoolean == ASSUME IInv PROVE shown \in BOOLEAN
BY Zenon DEF IInv, TypeOK, shown, Shown, Expanded

LEMMA ToggleInvariant ==
  ASSUME IInv, handleSubmenuToggle
  PROVE  IInv'
<1> DEFINE choice == [pathname |-> pathname, submenu |-> ~openSubmenu(manual, pathname)]
<1>1. pathname \in Page /\ manual \in [pathname : Page, submenu : BOOLEAN]
  BY DEF IInv, TypeOK
<1>2. choice \in [pathname : Page, submenu : BOOLEAN] /\ choice.pathname = pathname
  BY <1>1
<1>3. /\ Commit(shown, choice, pathname) /\ toggled' = toggled \cup {pathname}
      /\ UNCHANGED <<width, sidebar, pathname, modal, header, lang>>
  BY DEF handleSubmenuToggle
<1> HIDE DEF choice
<1>4. /\ manual' = choice /\ measured' \in BOOLEAN
      /\ height' \in {"none", "0px", "natural", "full"} /\ HeightFits'
  BY <1>1, <1>2, <1>3, ShownIsBoolean, CommitFits
<1>5. TypeOK'
  BY <1>1, <1>2, <1>3, <1>4 DEF IInv, TypeOK, sidebar, modal, header, lang
<1>6. WideIsPlain' /\ ChoiceIsToggled' /\ PageScrolls'
  BY <1>2, <1>3, <1>4 DEF IInv, WideIsPlain, ChoiceIsToggled, PageScrolls, sidebar, modal, header, lang
<1>7. QED
  BY <1>4, <1>5, <1>6 DEF IInv

LEMMA NavigateInvariant ==
  ASSUME IInv, NEW path \in Page, Navigate(path)
  PROVE  IInv'
<1>1. /\ pathname' = path /\ dialogs' = {} /\ dropdowns' = dropdowns \ Chart /\ Commit(shown, manual, path)
      /\ locked' = IF Dialogs[path] # {} THEN FALSE
                   ELSE IF Dialogs[pathname] # {} THEN FALSE ELSE locked
      /\ UNCHANGED <<width, sidebar, isApplicationMenuOpen, lang, toggled>>
  BY DEF Navigate, Cleanup, Remounted
<1>2. manual \in [pathname : Page, submenu : BOOLEAN]
  BY DEF IInv, TypeOK
<1>3. /\ manual' = manual /\ measured' \in BOOLEAN
      /\ height' \in {"none", "0px", "natural", "full"} /\ HeightFits'
  BY <1>1, <1>2, ShownIsBoolean, CommitFits
<1>4. locked' = FALSE
  <2>1. locked \in BOOLEAN /\ (locked => dialogs # {}) /\ dialogs \subseteq Dialogs[pathname]
    BY DEF IInv, TypeOK, PageScrolls
  <2>2. Dialogs[pathname] = {} => locked = FALSE
    BY <2>1
  <2>3. QED
    BY <1>1, <2>2
<1>5. dropdowns' \subseteq Dropdowns[path]
  <2>1. dropdowns \subseteq HeaderDropdown \cup Chart
    BY DEF IInv, TypeOK, Dropdowns
  <2>2. HeaderDropdown \subseteq Dropdowns[path]
    BY DEF Dropdowns
  <2>3. QED
    BY <1>1, <2>1, <2>2
<1>6. TypeOK'
  BY <1>1, <1>3, <1>4, <1>5 DEF IInv, TypeOK, sidebar, lang
<1>7. WideIsPlain' /\ ChoiceIsToggled' /\ PageScrolls'
  BY <1>1, <1>3, <1>4 DEF IInv, WideIsPlain, ChoiceIsToggled, PageScrolls, sidebar, lang
<1>8. QED
  BY <1>3, <1>6, <1>7 DEF IInv

LEMMA LoadInvariant ==
  ASSUME IInv, NEW path \in Page, Load(path)
  PROVE  IInv'
<1>1. /\ pathname' = path /\ width' = width /\ isMobile' = (width = "phone")
      /\ manual' = [pathname |-> path, submenu |-> FALSE]
      /\ height' = IF width = "phone" THEN "none" ELSE "0px"
      /\ dialogs' = {} /\ dropdowns' = {} /\ toggled' = {}
      /\ locale' = initialLocale /\ cookie' = initialLocale
      /\ dir' = IF isRtl(initialLocale) THEN "rtl" ELSE "ltr"
  BY DEF Load
<1>2. /\ isExpanded' = TRUE /\ isMobileOpen' = FALSE /\ isHovered' = FALSE /\ measured' = FALSE /\ locked' = FALSE
      /\ isApplicationMenuOpen' = FALSE
  BY DEF Load
<1>3. initialLocale \in Locale
  BY ShellAssumption DEF ShellAssumption, initialLocale, isLocale
<1>4. {isExpanded', isMobileOpen', isMobile', isHovered', measured', locked',
       isApplicationMenuOpen'} \subseteq BOOLEAN
  BY <1>1, <1>2, Zenon
<1>5. TypeOK'
  BY <1>1, <1>3, <1>4 DEF IInv, TypeOK
<1>6. WideIsPlain' /\ ChoiceIsToggled' /\ PageScrolls' /\ HeightFits'
  BY <1>1, <1>2 DEF WideIsPlain, ChoiceIsToggled, PageScrolls, HeightFits, openSubmenu
<1>7. QED
  BY <1>5, <1>6 DEF IInv

\* The sidebar and its submenu stay as they are.
LEMMA ModalInvariant ==
  ASSUME IInv, UNCHANGED <<width, sidebar, pathname, submenu, header, lang, toggled>>,
         dialogs' \subseteq Dialogs[pathname], locked' \in BOOLEAN, locked' => dialogs' # {}
  PROVE  IInv'
BY DEF IInv, TypeOK, WideIsPlain, HeightFits, ChoiceIsToggled, PageScrolls, sidebar, submenu, header, lang

LEMMA DialogSteps ==
  ASSUME IInv, (\E d \in UNION {Dialogs[p] : p \in Page} : OpenDialog(d)) \/ (\E c \in SUBSET dialogs : CloseDialogs(c))
  PROVE  IInv'
<1>1. dialogs \subseteq Dialogs[pathname]
  BY DEF IInv, TypeOK
<1>2. ASSUME NEW d \in UNION {Dialogs[p] : p \in Page}, OpenDialog(d) PROVE IInv'
  BY <1>1, <1>2, ModalInvariant DEF OpenDialog, openModal
<1>3. ASSUME NEW c \in SUBSET dialogs, CloseDialogs(c) PROVE IInv'
  BY <1>1, <1>3, ModalInvariant DEF CloseDialogs
<1>4. QED
  BY <1>2, <1>3

LEMMA PressInvariant ==
  ASSUME IInv, NEW t \in Target, NEW keyboard \in BOOLEAN, Press(t, keyboard)
  PROVE  IInv'
<1>1. /\ dropdowns' = Clicked(IF keyboard THEN dropdowns ELSE handleClickOutside(dropdowns, t), t)
      /\ UNCHANGED <<width, sidebar, pathname, submenu, modal, isApplicationMenuOpen, lang, toggled>>
  BY DEF Press
<1>2. dropdowns' \subseteq Dropdowns[pathname]
  <2>1. \/ t \in {"toggle", "item", "inside"} \X HeaderDropdown
        \/ t \in {"toggle", "item"} \X Chart
        \/ t = <<"elsewhere", "page">>
    BY DEF Target, Toggle, Item, Inside, ChartToggle, ChartItem
  <2>2. t[1] \in {"toggle", "item", "inside", "elsewhere"}
    BY <2>1
  <2>3. dropdowns \subseteq Dropdowns[pathname] /\ pathname \in Page
    BY DEF IInv, TypeOK
  <2>4. handleClickOutside(dropdowns, t) \subseteq dropdowns
    <3>1. CASE t[1] = "toggle"
      BY <3>1 DEF handleClickOutside
    <3>2. CASE t[1] \in {"item", "inside"}
      BY <3>2 DEF handleClickOutside
    <3>3. CASE t[1] = "elsewhere"
      BY <3>3 DEF handleClickOutside
    <3>4. QED
      BY <2>2, <3>1, <3>2, <3>3
  <2>5. t[1] = "toggle" => t[2] \in Dropdowns[pathname]
    <3>1. HeaderDropdown \subseteq Dropdowns[pathname]
      BY <2>3 DEF Dropdowns
    <3>2. t \in {"toggle", "item"} \X Chart => t[2] \in Dropdowns[pathname]
      <4>1. t \in {"toggle", "item"} \X Chart => t \in ChartToggle \cup ChartItem
        BY DEF ChartToggle, ChartItem
      <4>2. QED
        BY <4>1 DEF Press
    <3>3. QED
      BY <2>1, <3>1, <3>2
  <2>6. QED
    BY <1>1, <2>3, <2>4, <2>5 DEF Clicked, toggleDropdown, closeDropdown
<1>3. QED
  BY <1>1, <1>2 DEF IInv, TypeOK, WideIsPlain, HeightFits, ChoiceIsToggled, PageScrolls,
                    sidebar, submenu, modal, header, lang

LEMMA MenuInvariant ==
  ASSUME IInv, toggleApplicationMenu
  PROVE  IInv'
<1>1. /\ isApplicationMenuOpen' \in BOOLEAN
      /\ UNCHANGED <<width, sidebar, pathname, submenu, modal, dropdowns, lang, toggled>>
  BY Zenon DEF toggleApplicationMenu
<1>2. QED
  BY <1>1 DEF IInv, TypeOK, WideIsPlain, HeightFits, ChoiceIsToggled, PageScrolls,
              sidebar, submenu, modal, lang

LEMMA LanguageInvariant ==
  ASSUME IInv, (\E l \in Locale : setLocale(l)) \/ (\E l \in Locale \cup {""} : OtherTab(l))
  PROVE  IInv'
<1>1. /\ UNCHANGED <<width, sidebar, pathname, submenu, modal, header, toggled>>
      /\ locale' \in Locale /\ cookie' \in Locale \cup {""}
      /\ dir' = IF isRtl(locale') THEN "rtl" ELSE "ltr"
  <2>1. locale \in Locale /\ dir = IF isRtl(locale) THEN "rtl" ELSE "ltr"
    BY DEF IInv, TypeOK, WideIsPlain
  <2>2. QED
    BY <2>1 DEF setLocale, SetDirection, OtherTab
<1>2. QED
  BY <1>1 DEF IInv, TypeOK, WideIsPlain, HeightFits, ChoiceIsToggled, PageScrolls,
              sidebar, submenu, modal, header

LEMMA NextInvariant == IInv /\ [Next]_vars => IInv'
<1> SUFFICES ASSUME IInv, [Next]_vars PROVE IInv'
  OBVIOUS
<1>1. CASE Next
  <2>1. dialogs \in SUBSET dialogs /\ \A d \in dialogs : {d} \in SUBSET dialogs
    OBVIOUS
  <2>2. "" \in Locale \cup {""} /\ Locale \subseteq Locale \cup {""}
    OBVIOUS
  <2>3. \A card \in Card : handleSave(card) => card \in dialogs /\ CloseDialogs({card})
    BY DEF handleSave
  <2>4. handleEscape => CloseDialogs(dialogs)
    BY DEF handleEscape
  <2>5. QED
    BY <1>1, <2>1, <2>2, <2>3, <2>4, SidebarSteps, ToggleInvariant, DialogSteps, NavigateInvariant, LoadInvariant,
       PressInvariant, MenuInvariant, LanguageInvariant, Zenon DEF Next
<1>2. CASE UNCHANGED vars
  BY <1>2 DEF vars, IInv, TypeOK, WideIsPlain, HeightFits, ChoiceIsToggled, PageScrolls,
              sidebar, submenu, modal, header, lang
<1>3. QED
  BY <1>1, <1>2

LEMMA Invariance == Spec => []IInv
BY InitInvariant, NextInvariant, PTL DEF Spec

----------------------------------------------------------------------------
(* The theorems.                                                           *)

\* Types, and the context knows a narrow window for one.
THEOREM TypeCorrect == Spec => []TypeOK
BY Invariance, PTL DEF IInv

\* On a wide window the content lies beside the sidebar in every language.
THEOREM NeverOverlaps == Spec => []ContentBesideSidebar
<1>1. IInv => ContentBesideSidebar
  <2> SUFFICES ASSUME IInv, width = "desktop" PROVE mainContentMargin = sidebarSpace
    BY DEF ContentBesideSidebar
  <2>1. ~isMobileOpen /\ dir = IF isRtl(locale) THEN "rtl" ELSE "ltr"
    BY DEF IInv, WideIsPlain
  <2>2. shown <=> Expanded(isMobile, isExpanded) \/ isHovered
    BY <2>1, Zenon DEF shown, Shown
  <2>3. QED
    BY <2>1, <2>2 DEF mainContentMargin, sidebarSpace
<1>2. QED
  BY <1>1, Invariance, PTL

\* A submenu that is open in a sidebar that shows it has a height.
THEOREM OpenNeverHidden == Spec => []OpenSubmenuShows
<1>1. IInv => OpenSubmenuShows
  BY DEF IInv, HeightFits, OpenSubmenuShows
<1>2. QED
  BY <1>1, Invariance, PTL

\* A choice made on one page does not follow the user to the next.
THEOREM ChoiceStaysOnPage == Spec => []SubmenuStaysOnPage
<1>1. IInv => SubmenuStaysOnPage
  BY DEF IInv, ChoiceIsToggled, SubmenuStaysOnPage, openSubmenu
<1>2. QED
  BY <1>1, Invariance, PTL

\* A page that does not scroll has a dialog open.
THEOREM NeverStuck == Spec => []PageScrolls
BY Invariance, PTL DEF IInv

\* A press on the toggle of a dropdown opens it or closes it, with the mouse and with the
\* keyboard.
THEOREM PressAlwaysToggles == Spec => PressToggles
<1>1. ASSUME NEW d \in Dropdown, NEW keyboard \in BOOLEAN, Press(<<"toggle", d>>, keyboard)
      PROVE  d \in dropdowns' <=> d \notin dropdowns
  <2>1. handleClickOutside(dropdowns, <<"toggle", d>>) = dropdowns
    BY DEF handleClickOutside
  <2>2. dropdowns' = Clicked(dropdowns, <<"toggle", d>>)
    BY <1>1, <2>1 DEF Press
  <2>3. QED
    BY <2>2 DEF Clicked, toggleDropdown
<1>2. [Next]_vars => [\A d \in Dropdown, keyboard \in BOOLEAN :
                        Press(<<"toggle", d>>, keyboard) => (d \in dropdowns' <=> d \notin dropdowns)]_vars
  BY <1>1
<1>3. QED
  BY <1>2, PTL DEF Spec, PressToggles
=============================================================================
