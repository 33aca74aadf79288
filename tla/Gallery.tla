------------------------------- MODULE Gallery -------------------------------
(***************************************************************************)
(* What becomes of the figures of an entry in the channels: which images   *)
(* each prepares, and which it then shows (compose/archive.py and          *)
(* archive_html.py, compose/email.py, compose/zhihu.py, and for WeChat     *)
(* application/wechat.py and compose/wechat.py).  The two are decided      *)
(* apart, and by different rules.  A figure is told by its place among the *)
(* figures of the entry; legacy screenshots of whole pages are left out.   *)
(***************************************************************************)
EXTENDS Figures

FirstThree(positions) ==
  SubSeq(positions, 1, IF Len(positions) < 3 THEN Len(positions) ELSE 3)

Positions(figures) == [i \in DOMAIN figures |-> i]

\* is_public_image and safe_run_asset_path
IsPublicImage(f)    == f.suffix \in {"png", "jpg", "webp", "gif"}
SafeRunAssetPath(f) == f.located

(***************************************************************************)
(* The archive copies what is public and shows what it copied of the first *)
(* three.                                                                  *)
(***************************************************************************)
CopyArchiveAssets(figures) ==
  {i \in DOMAIN figures : SafeRunAssetPath(figures[i]) /\ IsPublicImage(figures[i])}

ArchiveGallery(figures) ==
  Sift(FirstThree(Positions(figures)), CopyArchiveAssets(figures))

(***************************************************************************)
(* A mail takes PNG and JPEG only.                                         *)
(***************************************************************************)
PrepareEmailAssets(figures) ==
  {i \in DOMAIN figures : /\ figures[i].renderable /\ SafeRunAssetPath(figures[i])
                          /\ figures[i].suffix \in {"png", "jpg"}}

EmailGallery(figures) ==
  Sift(FirstThree(Positions(figures)), PrepareEmailAssets(figures))

(***************************************************************************)
(* Zhihu copies the first three that can be shown, and shows them.         *)
(***************************************************************************)
CopyZhihuAssets(figures) ==
  ToSet(FirstThree(Sift(Positions(figures),
    {i \in DOMAIN figures : /\ figures[i].renderable
                            /\ SafeRunAssetPath(figures[i]) /\ IsPublicImage(figures[i])})))

ZhihuGallery(figures) ==
  FirstThree(Sift(Positions(figures), CopyZhihuAssets(figures)))

(***************************************************************************)
(* WeChat uploads everything that can be shown before it writes the page.  *)
(* The page has an image or, in its place, a notice that there is none;    *)
(* and it is not published with a notice on it.  uploads[i] is how the     *)
(* upload of a figure ends: it may fail, and the address it is given may   *)
(* be another than WeChat's.  offends says that there is something else on *)
(* the page that is not published: the word figures/ in a printed address, *)
(* a gist, a title or a caption, or a tag WeChat does not know.            *)
(***************************************************************************)
UploadEnds == {"hosted", "elsewhere", "failed"}
\* Mutant: the upload takes the formats that a mail takes.
MailMediaPaths(figures) ==
  {i \in DOMAIN figures : figures[i].renderable /\ figures[i].suffix \in {"png", "jpg"}}

LocalMediaPaths(figures) ==
  {i \in DOMAIN figures : figures[i].renderable}

\* A file that is not where the report says ends the publication, and so
\* does an upload that fails.
UploadRaises(figures, uploads) ==
  \E i \in LocalMediaPaths(figures) :
    ~SafeRunAssetPath(figures[i]) \/ uploads[i] = "failed"

PublishFigureGallery(figures, uploads) ==
  LET shown  == FirstThree(Positions(figures))
      hosted == {i \in LocalMediaPaths(figures) : uploads[i] = "hosted"}
  IN [images  |-> Sift(shown, hosted), notices |-> Sift(shown, DOMAIN figures \ hosted)]

\* What is said of "figures/" and of the notice is one issue in the code.
PublishHtmlIssues(figures, uploads, offends) ==
  offends \/ PublishFigureGallery(figures, uploads).notices # <<>>

\* A dry run uploads nothing and tolerates that issue.
WeChatOutcome(figures, uploads, offends) ==
  IF UploadRaises(figures, uploads) THEN "raised"
  ELSE IF PublishHtmlIssues(figures, uploads, offends) THEN "refused" ELSE "ready"
=============================================================================
