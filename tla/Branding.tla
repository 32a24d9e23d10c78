------------------------------- MODULE Branding -------------------------------
(***************************************************************************)
(* A studio's look: slots and tokens in config_secrets, font services,     *)
(* font families with their uploaded faces, and pictures. Administrators   *)
(* edit it field by field, save the font inventory as a whole, export it   *)
(* as a theme file and import one over it.                                 *)
(*                                                                         *)
(* Every request is one transaction and is one step. A value is told apart *)
(* only by what the importer does with it: <<kind, name>>, where a "file"  *)
(* is a name in the theme file, a "path" the route that serves a stored    *)
(* picture. The bytes of an asset are a font, an image or something else,  *)
(* and a file name is <<stem, weight, suffix>>.                            *)
(***************************************************************************)
EXTENDS Naturals, FiniteSets, SequencesExt

CONSTANTS
    Slots,          \* the settings that hold a URL
    Logo,           \* the one among them that has no registered type
    Services,       \* keys of font services
    Families,       \* names of font families
    Stem,           \* [Families -> stem]: the family name made fit for a file name
    Weights,        \* weight and style of a face
    SlotEdits,      \* values the editor may type into a slot
    RoleEdits,      \* families the editor may give the text, or none
    MaxAssets,      \* kMaxBundleAssets
    MaxFaces,       \* bound on the faces uploaded to one family
    Bundles,        \* theme files somebody may import
    Inventories     \* font inventories the editor may save

Kinds == {"cdn", "uploaded", "system"}
Formats == {"font", "image"}
NoService == "no service"
NoName == <<"", 0, 0>>
Unset == <<"unset", NoName>>
Absent == <<"absent", NoName>>      \* the theme file does not mention the key
External == <<"external", NoName>>
Junk == <<"junk", NoName>>          \* fails the validation of its type

Listed(q) == q \in Seq(ToSet(q))
StoredValue(v) == v = <<v[1], v[2]>> /\ v[1] \in {"unset", "external", "path", "junk"}

\* A family of a theme file or of the editor, with its faces.
BundleFamily(f) ==
    /\ f = [family |-> f.family, kind |-> f.kind, valid |-> f.valid, service |-> f.service, faces |-> f.faces]
    /\ f.family \in Families /\ f.kind \in Kinds /\ f.valid \in BOOLEAN /\ Listed(f.faces)
    /\ \A c \in ToSet(f.faces) : c = [weight |-> c.weight, file |-> c.file] /\ c.weight \in Weights \cup {0}

FontLists(l) ==
    /\ l.services \in Seq([key : Services, valid : BOOLEAN])
    /\ Listed(l.families) /\ \A f \in ToSet(l.families) : BundleFamily(f)

\* ThemeBundle: version, a stray setting, an app section, the settings, the fonts
\* and the files of a theme.
ThemeBundle(b) ==
    /\ b = [format |-> b.format, extra |-> b.extra, section |-> b.section, content |-> b.content,
            role |-> b.role, services |-> b.services, families |-> b.families, assets |-> b.assets]
    /\ b.format \in Nat
    /\ b.extra \in {"none", "unknown", "foreign"}
    /\ b.section \in {"none", "unknown", "accepts", "refuses"}
    /\ b.content = [k \in Slots |-> b.content[k]]
    /\ \A k \in Slots : b.content[k] = Absent \/ StoredValue(b.content[k]) \/ b.content[k][1] = "file"
    /\ b.role \in Families \cup {"", "absent", "junk"}
    /\ FontLists(b)
    /\ b.assets = [n \in DOMAIN b.assets |-> b.assets[n]]
    /\ \A n \in DOMAIN b.assets : b.assets[n] \in Formats \cup {"other"}

ASSUME BrandingAssumption ==
    /\ \A b \in Bundles : ThemeBundle(b)
    /\ \A inv \in Inventories : FontLists(inv)
    /\ Stem \in [Families -> STRING] /\ MaxAssets \in Nat
    /\ Weights \subseteq Nat \ {0} /\ 400 \in Weights /\ NoService \notin Services /\ Logo \in Slots /\ IsFiniteSet(Slots)
    /\ Families \cap {"", "absent", "junk"} = {} /\ RoleEdits \subseteq Families \cup {""}
    /\ \A v \in SlotEdits : StoredValue(v)

VARIABLES
    storage,    \* the tables for fonts and pictures exist
    site,       \* the look that is stored
    answer      \* what the last request was told; an error of any kind is "refused"

brandingVars == <<storage, site, answer>>

Blank == [slots |-> [k \in Slots |-> Unset], role |-> "", services |-> {},
          fonts |-> <<>>, rows |-> <<>>, assets |-> <<>>]

Face == [weight : Weights, bytes : Formats]
Font == [kind : Kinds, service : Services \cup {NoService}, ordinal : Nat, faces : Seq(Face)]

BrandingTypeOK ==
    /\ storage \in BOOLEAN
    /\ \A k \in Slots : StoredValue(site.slots[k])
    /\ site.role \in Families \cup {""}
    /\ site.services \subseteq Services
    /\ DOMAIN site.fonts \subseteq Families
    /\ \A f \in DOMAIN site.fonts : site.fonts[f] \in Font
    /\ Len(site.rows) = Cardinality(DOMAIN site.fonts) /\ ToSet(site.rows) = DOMAIN site.fonts
    /\ \A n \in DOMAIN site.assets : site.assets[n] = "image"
    /\ answer \in {"none", "saved", "saved in part", "checked", "refused"}

BrandingInit ==
    /\ storage \in BOOLEAN
    /\ site = Blank
    /\ answer = "none"

-------------------------------------------------------------------------------
(* Reading                                                                 *)

\* The members of S one after another, where E holds the pairs of an earlier and a
\* later one; what q has at the positions P, in the order E or in its own.
Sorted(S, E) ==
    CHOOSE q \in [1 .. Cardinality(S) -> S] :
        \A i, j \in 1 .. Cardinality(S) : i < j => <<q[i], q[j]>> \in E
SortedAt(q, P, E) == [k \in 1 .. Cardinality(P) |-> q[Sorted(P, E)[k]]]
Ascending(P) == {p \in P \X P : p[1] < p[2]}
ChosenAt(q, P) == SortedAt(q, P, Ascending(P))

\* GetAllFonts: ORDER BY ordinal, site_font_id; rows is the order of the ids.
Earlier(s, f, g) ==
    \/ s.fonts[f].ordinal < s.fonts[g].ordinal
    \/ /\ s.fonts[f].ordinal = s.fonts[g].ordinal
       /\ \E i, j \in DOMAIN s.rows : i < j /\ s.rows[i] = f /\ s.rows[j] = g
AllFonts(s) ==
    LET D == DOMAIN s.fonts IN Sorted(D, {p \in D \X D : Earlier(s, p[1], p[2])})

\* GetFacesForFont: ORDER BY weight, style.
Lighter(faces, i, j) ==
    \/ faces[i].weight < faces[j].weight
    \/ faces[i].weight = faces[j].weight /\ i < j
FacesForFont(faces) ==
    LET D == DOMAIN faces IN SortedAt(faces, D, {p \in D \X D : Lighter(faces, p[1], p[2])})

\* LookupFontStack: a role is served only while its family has a row.
LookupFontStack(s, family) == IF family \in DOMAIN s.fonts THEN family ELSE ""

CdnFonts(s) ==
    LET all == AllFonts(s) IN
    ChosenAt(all, {i \in DOMAIN all : s.fonts[all[i]].kind = "cdn" /\ s.fonts[all[i]].service # NoService})

\* BuildFontStylesheetUrl: what one service is asked for, in font order.
BuildFontStylesheetUrl(s, v) ==
    LET cdn == CdnFonts(s) IN ChosenAt(cdn, {i \in DOMAIN cdn : s.fonts[cdn[i]].service = v})

\* The two public routes: the bytes of a stored picture and of an uploaded face.
GetSiteAsset(s, v) ==
    IF v[1] = "path" /\ v[2] \in DOMAIN s.assets THEN s.assets[v[2]] ELSE "not found"

GetSiteFontFaces(s, f) ==
    LET faces == FacesForFont(s.fonts[f].faces) IN
    ChosenAt(faces, {i \in DOMAIN faces : faces[i].bytes = "font"})

\* GetSiteInfo: what a visitor's browser is told. A role naming a family without a
\* row keeps the default; a service is asked for the families it serves, in order;
\* a face in no known format is left out.
SiteInfo(s) ==
    [content |-> s.slots,
     pictures |-> [k \in Slots |-> GetSiteAsset(s, s.slots[k])],
     theme |-> LookupFontStack(s, s.role),
     sheets |-> [v \in {s.fonts[f].service : f \in ToSet(CdnFonts(s))} |-> BuildFontStylesheetUrl(s, v)],
     faces |-> [f \in DOMAIN s.fonts |-> GetSiteFontFaces(s, f)]]

-------------------------------------------------------------------------------
(* Export                                                                  *)

\* MakeAssetName: two family names may come down to one stem.
MakeAssetName(f, weight, suffix) == <<Stem[f], weight, suffix>>

\* ClaimAssetName: the stem, or the stem with the first free suffix.
ClaimAssetName(taken, f, weight) ==
    CHOOSE n \in {MakeAssetName(f, weight, k) : k \in 1 .. Cardinality(taken) + 1} :
        /\ n \notin taken
        /\ \A k \in 1 .. n[3] - 1 : MakeAssetName(f, weight, k) \in taken

\* exportSlot: a stored picture travels with the file, one that is gone clears the slot.
ExportSlot(s, v) ==
    IF v[1] # "path" THEN v
    ELSE IF v[2] \in DOMAIN s.assets THEN <<"file", v[2]>> ELSE Unset

ExportPictures(s) ==
    LET used == {n \in DOMAIN s.assets : \E k \in Slots : s.slots[k] = <<"path", n>>}
    IN [n \in used |-> s.assets[n]]

\* One face after another, each claiming its file name.
ExportFace(acc, f, c) ==
    LET name == ClaimAssetName(DOMAIN acc.assets, f, c.weight) IN
    [assets |-> [n \in DOMAIN acc.assets \cup {name} |->
                    IF n = name THEN c.bytes ELSE acc.assets[n]],
     faces |-> Append(acc.faces, [weight |-> c.weight, file |-> name])]

ExportFaces(assets, f, faces) ==
    LET Done[i \in 0 .. Len(faces)] ==
            IF i = 0 THEN [assets |-> assets, faces |-> <<>>] ELSE ExportFace(Done[i - 1], f, faces[i])
    IN Done[Len(faces)]

ExportFamily(acc, f, font) ==
    LET done == ExportFaces(acc.assets, f, FacesForFont(font.faces))
    IN [assets |-> done.assets,
        families |-> Append(acc.families,
            [family |-> f, kind |-> font.kind, valid |-> TRUE, faces |-> done.faces,
             service |-> IF font.kind = "cdn" THEN font.service ELSE NoService])]

ExportFamilies(fonts, order, pictures) ==
    LET Done[i \in 0 .. Len(order)] ==
            IF i = 0 THEN [assets |-> pictures, families |-> <<>>]
            ELSE ExportFamily(Done[i - 1], order[i], fonts[order[i]])
    IN Done[Len(order)]

\* ThemeBundleToJson writes every registered key, the ones without a value as empty.
ThemeBundleToJson(b) ==
    [b EXCEPT !.content = [k \in Slots |-> IF @[k] = Absent THEN Unset ELSE @[k]],
              !.role = IF @ = "absent" THEN "" ELSE @]

ExportThemeBundle(s) ==
    LET fonts == ExportFamilies(s.fonts, AllFonts(s), ExportPictures(s))
    IN ThemeBundleToJson(
        [format |-> 1, extra |-> "none", section |-> "none",
         content |-> [k \in Slots |-> ExportSlot(s, s.slots[k])],
         role |-> s.role,
         services |-> [i \in 1 .. Cardinality(s.services) |->
                         [key |-> SetToSeq(s.services)[i], valid |-> TRUE]],
         families |-> fonts.families,
         assets |-> fonts.assets])

\* A face in no known format, or too many files, fails the whole export.
Exportable(s) ==
    /\ \A f \in DOMAIN s.fonts : \A i \in DOMAIN s.fonts[f].faces : s.fonts[f].faces[i].bytes = "font"
    /\ Cardinality(DOMAIN ExportThemeBundle(s).assets) <= MaxAssets

-------------------------------------------------------------------------------
(* Import                                                                  *)

\* The formats are read off the bytes, never off the name.
FontFormatFromMagicBytes(bytes) == IF bytes = "font" THEN "woff2" ELSE ""
ImageTypeFromMagicBytes(bytes) == IF bytes = "image" THEN "png" ELSE ""

\* What the validators accept: the value of a slot, of a token, a service, a family.
\* An empty value passes, a "file" is looked up among the files instead.
ValidateSlotValue(v) == v # Junk
IsValidThemeTokenValue(role) == role # "junk"
IsValidFontSource(v) == v.valid
IsValidFontFamily(f) == f.valid
IsBundleAssetReference(v) == v[1] = "file"

\* ThemeBundleFromZip: an archive that cannot be read holds no format at all.
ThemeBundleFromZip(b) == b.format # 0 /\ Cardinality(DOMAIN b.assets) <= MaxAssets

\* MigrateBundleJson: there is one format yet.
MigrateBundleJson(b) == b.format = 1

\* ThemeBundleFromJson copies what the file mentions; a face without a weight is 400.
ThemeBundleFromJson(b) ==
    LET Weighted(c) == [c EXCEPT !.weight = IF @ = 0 THEN 400 ELSE @]
        Parsed(f) == [f EXCEPT !.faces = [j \in DOMAIN f.faces |-> Weighted(f.faces[j])]]
    IN [b EXCEPT !.families = [i \in DOMAIN b.families |-> Parsed(b.families[i])]]

\* What no tolerance makes usable.
FindFatalBundleProblem(b) ==
    \/ Cardinality(DOMAIN b.assets) > MaxAssets
    \/ \E n \in DOMAIN b.assets :
         FontFormatFromMagicBytes(b.assets[n]) = "" /\ ImageTypeFromMagicBytes(b.assets[n]) = ""
    \/ b.extra = "foreign"

\* A slot that cannot be used is treated as if the file did not mention it.
PruneSlot(b, k) ==
    LET v == b.content[k] IN
    IF \/ IsBundleAssetReference(v) /\ v[2] \notin DOMAIN b.assets
       \/ ~ValidateSlotValue(v) /\ k # Logo
    THEN Absent ELSE v

\* Services, then families: each is checked against the names seen so far, and the
\* name of an entry that is dropped is forgotten, also when it was dropped for being
\* the second of its name.
PruneSource(acc, v) ==
    IF IsValidFontSource(v) /\ v.key \notin acc.seen
    THEN [acc EXCEPT !.seen = @ \cup {v.key}, !.kept = Append(@, v)]
    ELSE [acc EXCEPT !.seen = @ \ {v.key}, !.problems = TRUE]

UsableFace(b, c) == c.file \in DOMAIN b.assets /\ b.assets[c.file] = "font"
UsableFaces(b, faces) == ChosenAt(faces, {j \in DOMAIN faces : UsableFace(b, faces[j])})

\* Mutant: a face that drops on its own is not reported.
PruneFamilySilently(b, keys, acc, f) ==
    LET faces == IF f.kind = "uploaded" THEN UsableFaces(b, f.faces) ELSE f.faces
        usable == /\ IsValidFontFamily(f)
                  /\ f.family \notin acc.seen
                  /\ f.kind = "cdn" => f.service \in keys
                  /\ f.kind = "uploaded" => faces # <<>>
    IN IF usable
       THEN [seen |-> acc.seen \cup {f.family}, kept |-> Append(acc.kept, [f EXCEPT !.faces = faces]),
             problems |-> acc.problems]
       ELSE [acc EXCEPT !.seen = @ \ {f.family}, !.problems = TRUE]

PruneFamily(b, keys, acc, f) ==
    LET faces == IF f.kind = "uploaded" THEN UsableFaces(b, f.faces) ELSE f.faces
        usable == /\ IsValidFontFamily(f)
                  /\ f.family \notin acc.seen
                  /\ f.kind = "cdn" => f.service \in keys
                  /\ f.kind = "uploaded" => faces # <<>>
    IN IF usable
       THEN [seen |-> acc.seen \cup {f.family}, kept |-> Append(acc.kept, [f EXCEPT !.faces = faces]),
             problems |-> acc.problems \/ faces # f.faces]
       ELSE [acc EXCEPT !.seen = @ \ {f.family}, !.problems = TRUE]

NoneSeen == [seen |-> {}, kept |-> <<>>, problems |-> FALSE]

PruneSources(services) ==
    LET Done[i \in 0 .. Len(services)] ==
            IF i = 0 THEN NoneSeen ELSE PruneSource(Done[i - 1], services[i])
    IN Done[Len(services)]

PruneFamilies(b, keys) ==
    LET Done[i \in 0 .. Len(b.families)] ==
            IF i = 0 THEN NoneSeen ELSE PruneFamily(b, keys, Done[i - 1], b.families[i])
    IN Done[Len(b.families)]

PruneUnusableBundleItems(b) ==
    LET services == PruneSources(b.services)
        families == PruneFamilies(b, services.seen)
        content == [k \in Slots |-> PruneSlot(b, k)]
        role == IF IsValidThemeTokenValue(b.role) THEN b.role ELSE "absent"
    IN [bundle |-> [b EXCEPT !.content = content, !.role = role,
                             !.services = services.kept, !.families = families.kept],
        problems |-> \/ services.problems \/ families.problems
                     \/ content # b.content \/ role # b.role]

\* UpdateFont and AddFont of each listed family, the last of its name winning: the
\* row keeps its place among the ids, its order is its position in the list.
StoreFamilies(s, list, keep, row) ==
    LET names == {list[i].family : i \in DOMAIN list}
        old == IF keep THEN DOMAIN s.fonts ELSE DOMAIN s.fonts \cap names
        At(f) == Max({i \in DOMAIN list : list[i].family = f})
        added == {i \in DOMAIN list : /\ list[i].family \notin DOMAIN s.fonts
                                      /\ \A j \in 1 .. i - 1 : list[j].family # list[i].family}
    IN [fonts |-> [f \in old \cup names |->
                     IF f \in names THEN row[At(f)] ELSE s.fonts[f]],
        rows |-> ChosenAt(s.rows, {i \in DOMAIN s.rows : s.rows[i] \in old})
                 \o ChosenAt([i \in DOMAIN list |-> list[i].family], added)]

\* The faces of a family whose file is there, with its bytes.
StoredFaces(b, faces) ==
    LET present == ChosenAt(faces, {j \in DOMAIN faces : faces[j].file \in DOMAIN b.assets})
    IN [j \in DOMAIN present |-> [weight |-> present[j].weight, bytes |-> b.assets[present[j].file]]]

\* Mutant: the position in the file is not stored.
ApplyBundleFontsUnordered(s, b, merge) ==
    LET keys == {b.services[i].key : i \in DOMAIN b.services}
        Row(f, i) ==
            [kind |-> f.kind, ordinal |-> 10,
             service |-> IF f.kind = "cdn" THEN f.service ELSE NoService,
             faces |-> StoredFaces(b, f.faces)]
        stored == StoreFamilies(s, b.families, merge, [i \in DOMAIN b.families |-> Row(b.families[i], i)])
    IN [s EXCEPT !.services = IF merge THEN @ \cup keys ELSE keys,
                 !.fonts = stored.fonts, !.rows = stored.rows]

\* ApplyBundleFonts
ApplyBundleFonts(s, b, merge) ==
    LET keys == {b.services[i].key : i \in DOMAIN b.services}
        Row(f, i) ==
            [kind |-> f.kind, ordinal |-> 10 * i,
             service |-> IF f.kind = "cdn" THEN f.service ELSE NoService,
             faces |-> StoredFaces(b, f.faces)]
        stored == StoreFamilies(s, b.families, merge, [i \in DOMAIN b.families |-> Row(b.families[i], i)])
    IN [s EXCEPT !.services = IF merge THEN @ \cup keys ELSE keys,
                 !.fonts = stored.fonts, !.rows = stored.rows]

\* Mutant: replacing writes only the settings the file mentions.
ApplyBundleMentionedOnly(s, b, merge) ==
    LET images == {n \in DOMAIN b.assets : FontFormatFromMagicBytes(b.assets[n]) = ""}
        assets == IF merge THEN DOMAIN s.assets \cup images ELSE images
        Slot(k) == LET v == b.content[k] IN
                   IF v # Absent THEN (IF IsBundleAssetReference(v) THEN <<"path", v[2]>> ELSE v)
                   ELSE s.slots[k]
        role == IF b.role # "absent" THEN b.role ELSE IF merge THEN s.role ELSE ""
    IN ApplyBundleFonts([s EXCEPT !.assets = [n \in assets |-> "image"],
                                  !.slots = [k \in Slots |-> Slot(k)],
                                  !.role = role], b, merge)

\* Mutant: a bundled file is not rewritten to the route that serves it.
ApplyBundleKeepsNames(s, b, merge) ==
    LET images == {n \in DOMAIN b.assets : FontFormatFromMagicBytes(b.assets[n]) = ""}
        assets == IF merge THEN DOMAIN s.assets \cup images ELSE images
        Slot(k) == LET v == b.content[k] IN
                   IF v # Absent THEN v
                   ELSE IF merge THEN s.slots[k] ELSE Unset
        role == IF b.role # "absent" THEN b.role ELSE IF merge THEN s.role ELSE ""
    IN ApplyBundleFonts([s EXCEPT !.assets = [n \in assets |-> "image"],
                                  !.slots = [k \in Slots |-> Slot(k)],
                                  !.role = role], b, merge)

\* Pictures, then the settings that point at them, then the fonts.
ApplyBundle(s, b, merge) ==
    LET images == {n \in DOMAIN b.assets : FontFormatFromMagicBytes(b.assets[n]) = ""}
        assets == IF merge THEN DOMAIN s.assets \cup images ELSE images
        Slot(k) == LET v == b.content[k] IN
                   IF v # Absent THEN (IF IsBundleAssetReference(v) THEN <<"path", v[2]>> ELSE v)
                   ELSE IF merge THEN s.slots[k] ELSE Unset
        role == IF b.role # "absent" THEN b.role ELSE IF merge THEN s.role ELSE ""
    IN ApplyBundleFonts([s EXCEPT !.assets = [n \in assets |-> "image"],
                                  !.slots = [k \in Slots |-> Slot(k)],
                                  !.role = role], b, merge)

\* ImportThemeBundleJson: whether it is accepted, what it left out, what is stored.
ImportThemeBundleJson(s, b, merge, strict) ==
    LET pruned == PruneUnusableBundleItems(ThemeBundleFromJson(b))
        refusedSection == b.section = "refuses"
        accepted ==
            /\ ThemeBundleFromZip(b)
            /\ MigrateBundleJson(b)
            /\ ~FindFatalBundleProblem(b)
            /\ strict => b.extra # "unknown" /\ ~pruned.problems /\ ~refusedSection
    IN [ok |-> accepted,
        reported |-> accepted /\ (pruned.problems \/ refusedSection \/ b.extra = "unknown" \/ b.section = "unknown"),
        site |-> IF accepted THEN ApplyBundle(s, pruned.bundle, merge) ELSE s]

\* What may be uploaded: files from elsewhere and the studio's own download.
ThemeFiles == Bundles \cup {ExportThemeBundle(s) : s \in {t \in {site} : storage /\ Exportable(t)}}

\* Mutant: a refusal returns, and the transaction commits.
RunImportReturning(b, merge, strict, dryRun) ==
    LET asked == IF dryRun THEN [b EXCEPT !.section = IF @ = "refuses" THEN "accepts" ELSE @] ELSE b
        done == ImportThemeBundleJson(site, asked, merge, strict)
    IN /\ IF done.ok /\ ~dryRun
          THEN storage' = TRUE /\ site' = done.site
          ELSE storage' = (storage \/ (~dryRun /\ b.format = 1)) /\ UNCHANGED site
       /\ answer' = IF ~done.ok THEN "refused"
                    ELSE IF dryRun THEN "checked"
                    ELSE IF done.reported THEN "saved in part" ELSE "saved"

\* RunImport: a refusal is thrown, so that the tables created on the way go too.
\* The dry run stops before the sections are asked.
RunImport(b, merge, strict, dryRun) ==
    LET asked == IF dryRun THEN [b EXCEPT !.section = IF @ = "refuses" THEN "accepts" ELSE @] ELSE b
        done == ImportThemeBundleJson(site, asked, merge, strict)
    IN /\ IF done.ok /\ ~dryRun
          THEN storage' = TRUE /\ site' = done.site
          ELSE UNCHANGED <<storage, site>>
       /\ answer' = IF ~done.ok THEN "refused"
                    ELSE IF dryRun THEN "checked"
                    ELSE IF done.reported THEN "saved in part" ELSE "saved"

PostManageSiteThemeBundleValidate ==
    \E b \in ThemeFiles, merge, strict \in BOOLEAN : RunImport(b, merge, strict, TRUE)

PostManageSiteThemeBundle ==
    \E b \in ThemeFiles, merge, strict \in BOOLEAN : RunImport(b, merge, strict, FALSE)

GetManageSiteThemeBundle ==
    LET ok == storage /\ Exportable(site) IN
    /\ answer' = IF ok THEN "saved" ELSE "refused"
    /\ UNCHANGED <<storage, site>>

-------------------------------------------------------------------------------
(* Editing                                                                 *)

\* PutManageSiteTheme: one setting at a time is enough, the whole request is
\* validated before the first write. The logo is not among the fields.
PutManageSiteTheme ==
    \/ \E k \in Slots \ {Logo}, v \in SlotEdits :
        /\ site' = IF ValidateSlotValue(v) THEN [site EXCEPT !.slots[k] = v] ELSE site
        /\ answer' = IF ValidateSlotValue(v) THEN "saved" ELSE "refused"
        /\ UNCHANGED storage
    \/ \E f \in RoleEdits :
        /\ site' = [site EXCEPT !.role = f]
        /\ answer' = "saved"
        /\ UNCHANGED storage

\* Mutant: the families are deleted and added again.
SaveInventoryAnew(s, inv) ==
    LET keys == {inv.services[i].key : i \in DOMAIN inv.services}
        Row(f, i) ==
            [kind |-> f.kind, ordinal |-> 10 * i,
             service |-> IF f.kind = "cdn" /\ f.service \in keys THEN f.service ELSE NoService,
             faces |-> <<>>]
        stored == StoreFamilies(s, inv.families, FALSE, [i \in DOMAIN inv.families |-> Row(inv.families[i], i)])
    IN [s EXCEPT !.services = keys, !.fonts = stored.fonts, !.rows = stored.rows]

\* Mutant: UpdateFont leaves out an empty source instead of clearing it.
SaveInventoryKeepsSource(s, inv) ==
    LET keys == {inv.services[i].key : i \in DOMAIN inv.services}
        Row(f, i) ==
            [kind |-> f.kind, ordinal |-> 10 * i,
             service |-> IF f.kind = "cdn" /\ f.service \in keys THEN f.service
                         ELSE IF f.family \in DOMAIN s.fonts THEN s.fonts[f.family].service ELSE NoService,
             faces |-> IF f.family \in DOMAIN s.fonts THEN s.fonts[f.family].faces ELSE <<>>]
        stored == StoreFamilies(s, inv.families, FALSE, [i \in DOMAIN inv.families |-> Row(inv.families[i], i)])
    IN [s EXCEPT !.services = keys, !.fonts = stored.fonts, !.rows = stored.rows]

\* The reconciling of the font manager: families keep their row, and with it their
\* faces; a service that is not in the list leaves the family without one.
SaveInventory(s, inv) ==
    LET keys == {inv.services[i].key : i \in DOMAIN inv.services}
        Row(f, i) ==
            [kind |-> f.kind, ordinal |-> 10 * i,
             service |-> IF f.kind = "cdn" /\ f.service \in keys THEN f.service ELSE NoService,
             faces |-> IF f.family \in DOMAIN s.fonts THEN s.fonts[f.family].faces ELSE <<>>]
        stored == StoreFamilies(s, inv.families, FALSE, [i \in DOMAIN inv.families |-> Row(inv.families[i], i)])
    IN [s EXCEPT !.services = keys, !.fonts = stored.fonts, !.rows = stored.rows]

ValidInventory(inv) ==
    /\ \A i \in DOMAIN inv.services : IsValidFontSource(inv.services[i])
    /\ \A i \in DOMAIN inv.families : IsValidFontFamily(inv.families[i])
    /\ IsInjective([i \in DOMAIN inv.services |-> inv.services[i].key])
    /\ IsInjective([i \in DOMAIN inv.families |-> inv.families[i].family])
    /\ \A i \in DOMAIN inv.families :
         inv.families[i].kind = "cdn" => inv.families[i].service # NoService

PutManageSiteFonts ==
    \E inv \in Inventories :
        /\ site' = IF storage /\ ValidInventory(inv) THEN SaveInventory(site, inv) ELSE site
        /\ answer' = IF storage /\ ValidInventory(inv) THEN "saved" ELSE "refused"
        /\ UNCHANGED storage

\* Bytes that are no font are refused before the family is looked up.
PostManageSiteFontFace ==
    \E f \in Families, w \in Weights, bytes \in Formats :
        LET found == f \in DOMAIN site.fonts
            ok == FontFormatFromMagicBytes(bytes) # "" /\ found
        IN /\ found => Len(site.fonts[f].faces) < MaxFaces
           /\ site' = IF ok THEN [site EXCEPT !.fonts[f].faces =
                                     Append(@, [weight |-> w, bytes |-> bytes])] ELSE site
           /\ answer' = IF ok THEN "saved" ELSE "refused"
           /\ UNCHANGED storage

DeleteManageSiteFontFace ==
    \E f \in DOMAIN site.fonts : \E i \in DOMAIN site.fonts[f].faces :
        /\ site' = [site EXCEPT !.fonts[f].faces = RemoveAt(@, i)]
        /\ answer' = "saved"
        /\ UNCHANGED storage

BrandingNext ==
    \/ PutManageSiteTheme
    \/ PutManageSiteFonts
    \/ PostManageSiteFontFace
    \/ DeleteManageSiteFontFace
    \/ PostManageSiteThemeBundleValidate
    \/ PostManageSiteThemeBundle
    \/ GetManageSiteThemeBundle

BrandingSpec == BrandingInit /\ [][BrandingNext]_brandingVars

-------------------------------------------------------------------------------
(* Properties                                                              *)

\* A look without loose ends: no picture is missing, every family served by a
\* service has one and every uploaded family has a font file.
Complete(s) ==
    /\ \A k \in Slots : s.slots[k][1] = "path" => s.slots[k][2] \in DOMAIN s.assets
    /\ \A f \in DOMAIN s.fonts :
         /\ s.fonts[f].kind = "cdn" => s.fonts[f].service # NoService
         /\ s.fonts[f].kind = "uploaded" => s.fonts[f].faces # <<>>

RoundTrips(s) ==
    LET b == ExportThemeBundle(s) IN
    \A onto \in {s, Blank} :
        LET again == ImportThemeBundleJson(onto, b, FALSE, TRUE) IN
        /\ again.ok /\ ~again.reported
        /\ Exportable(again.site) /\ ExportThemeBundle(again.site) = b
        /\ SiteInfo(again.site) = SiteInfo(s)

\* theme_bundle_export.h: export, import, export gives the same file. For a look
\* without loose ends that can be exported at all, the file imports strictly onto the
\* same studio or an empty one, exports to the same file and shows visitors the same,
\* whatever the editors and earlier imports did.
RoundTrip == Exportable(site) /\ Complete(site) => RoundTrips(site)

\* theme_bundle_import.h: replacing is the default, and a file means the same on any
\* studio: nothing of the previous look shows through.
ReplaceForgetsThePrevious ==
    \A b \in ThemeFiles :
        LET here == ImportThemeBundleJson(site, b, FALSE, FALSE)
            fresh == ImportThemeBundleJson(Blank, b, FALSE, FALSE)
        IN /\ here.ok = fresh.ok
           /\ here.ok => /\ SiteInfo(here.site) = SiteInfo(fresh.site)
                         /\ ExportThemeBundle(here.site) = ExportThemeBundle(fresh.site)

\* manage_site_theme_bundle.cpp throws ImportRefused so that a refused import, like a
\* dry run, leaves neither a setting nor a table behind.
RefusedChangesNothing ==
    [][answer' \in {"refused", "checked"} => UNCHANGED <<storage, site>>]_brandingVars

\* manage_site_fonts.cpp, reconcile: saving the inventory never costs a family that
\* stays in it the font files uploaded to it.
EditKeepsFaces ==
    \A inv \in Inventories :
        LET after == SaveInventory(site, inv) IN
        \A f \in DOMAIN site.fonts \cap DOMAIN after.fonts :
            after.fonts[f].faces = site.fonts[f].faces

\* site_fonts.font_source_id is no foreign key: only the order of updates and deletes
\* keeps it from naming a service that is gone. Uploaded and system families name none.
FontServicesResolve ==
    \A f \in DOMAIN site.fonts :
        /\ site.fonts[f].service \in site.services \cup {NoService}
        /\ site.fonts[f].kind # "cdn" => site.fonts[f].service = NoService

\* theme_bundle_migrations.h, "never silent": an import that reports nothing stored
\* every setting, service, family and uploaded face that the file lists.
NeverSilent ==
    \A b \in ThemeFiles, merge \in BOOLEAN :
        LET done == ImportThemeBundleJson(site, b, merge, FALSE)
            info == SiteInfo(done.site)
        IN done.ok /\ ~done.reported =>
            /\ \A k \in Slots : b.content[k][1] = "external" => info.content[k] = b.content[k]
            /\ \A i \in DOMAIN b.services : b.services[i].key \in done.site.services
            /\ \A i \in DOMAIN b.families :
                 LET f == b.families[i] IN
                 /\ f.family \in DOMAIN info.faces
                 /\ f.kind = "cdn" => f.service \in DOMAIN info.sheets
                 /\ f.kind = "uploaded" => Len(info.faces[f.family]) = Len(f.faces)

\* ImportThemeBundleJson stores what the file says and nothing else, or says
\* so.
ImportIsFaithful ==
  /\ ReplaceForgetsThePrevious
  /\ NeverSilent

\* The rows of fonts, faces and services fit together after every edit and
\* import.
InventoryIntact ==
  /\ BrandingTypeOK
  /\ EditKeepsFaces
  /\ FontServicesResolve
===========================================================================
