------------------------------ MODULE MCBranding ------------------------------
(* Two families whose names give the same file stem, one service, a logo and   *)
(* one typed slot. The theme files are the ones the importer treats apart.     *)
EXTENDS Branding

MCStem == [f \in Families |-> "brand"]
picture == <<"hero", 0, 0>>
fontFile == <<"brand", 400, 1>>
MCSlotEdits == {Junk, <<"path", picture>>}

family(name, kind, faces) ==
    [family |-> name, kind |-> kind, valid |-> TRUE, faces |-> faces,
     service |-> IF kind = "cdn" THEN "google" ELSE NoService]
face(name) == [weight |-> 400, file |-> name]
google == [key |-> "google", valid |-> TRUE]

plain == [format |-> 1, extra |-> "none", section |-> "none",
          content |-> [k \in Slots |-> Absent], role |-> "absent",
          services |-> <<>>, families |-> <<>>, assets |-> <<>>]
pictureAsset == [n \in {picture} |-> "image"]
bothAssets == [n \in {picture, fontFile} |-> IF n = picture THEN "image" ELSE "font"]

branded == [plain EXCEPT !.content = [k \in Slots |-> <<"file", picture>>], !.role = "A",
                         !.services = <<google>>, !.assets = bothAssets,
                         !.families = <<family("B", "uploaded", <<face(fontFile)>>), family("A", "cdn", <<>>)>>]

MCBundles == {
    branded,
    [plain EXCEPT !.content[Logo] = Junk, !.role = "", !.section = "unknown",
                  !.families = <<family("B", "system", <<face(picture)>>)>>, !.assets = pictureAsset],
    [plain EXCEPT !.content = [k \in Slots |-> IF k = Logo THEN External ELSE Junk], !.extra = "unknown",
                  !.role = "junk", !.section = "accepts"],
    [branded EXCEPT !.services = <<google, google>>, !.section = "refuses",
                    !.content = [k \in Slots |-> <<"file", <<"gone", 0, 0>>>>]],
    [plain EXCEPT !.families = <<family("A", "uploaded", <<face(picture), [face(fontFile) EXCEPT !.weight = 0]>>)>>,
                  !.assets = bothAssets],
    [plain EXCEPT !.families = <<family("A", "system", <<face(picture)>>), family("A", "uploaded", <<face(picture)>>),
                                 family("A", "system", <<>>)>>, !.assets = pictureAsset],
    [plain EXCEPT !.extra = "foreign"],
    [plain EXCEPT !.format = 0],
    [plain EXCEPT !.format = 2],
    [plain EXCEPT !.assets = [n \in {picture} |-> "other"]] }

inventory(services, families) == [services |-> services, families |-> families]
MCInventories == {
    inventory(<<google>>, <<family("A", "cdn", <<>>), family("B", "uploaded", <<>>)>>),
    inventory(<<google>>, <<family("B", "uploaded", <<>>), family("A", "uploaded", <<>>)>>),
    inventory(<<>>, <<family("A", "cdn", <<>>)>>),
    inventory(<<>>, <<family("A", "system", <<>>), family("A", "uploaded", <<>>)>>),
    inventory(<<google, google>>, <<>>),
    inventory(<<>>, <<[family("A", "cdn", <<>>) EXCEPT !.service = NoService]>>) }
===============================================================================
