------------------------------ MODULE Services ------------------------------
(***************************************************************************)
(* The services around the pipeline side by side: the logger, the face     *)
(* gallery and the frame hub of the web server.  They share no variable,   *)
(* and a behaviour is one of one service, the others staying as they began.*)
(* The proofs are about the specification of each service.                 *)
(***************************************************************************)
EXTENDS LogRings, FaceGallery, WebHub

VARIABLE service   \* the service whose behaviour it is

Still ==
  /\ UNCHANGED service
  /\ service = "logger"  \/ UNCHANGED logVars
  /\ service = "gallery" \/ UNCHANGED galleryVars
  /\ service = "hub"     \/ UNCHANGED hubVars

servicesVars == <<service, logVars, galleryVars, hubVars>>

ServicesInit ==
  /\ service \in {"logger", "gallery", "hub"}
  /\ LogInit /\ GalleryInit /\ HubInit

ServicesNext ==
  /\ Still
  /\ \/ service = "logger"  /\ LogNext
     \/ service = "gallery" /\ GalleryNext
     \/ service = "hub"     /\ HubNext

ServicesSpec ==
  /\ ServicesInit /\ [][ServicesNext]_servicesVars
  /\ WF_servicesVars(service = "logger" /\ Followed /\ WriterStep /\ Still)
  /\ WF_servicesVars(service = "gallery" /\ GalleryTick /\ Still)
  /\ WF_servicesVars(service = "gallery" /\ GalleryPrune /\ Still)
  /\ WF_servicesVars(service = "hub" /\ hub = "on" /\ Broadcasts /\ Still)

=============================================================================
